---- MODULE Spec2Model ----
(***************************************************************************)
(* Model of the image-classifier-app server: the upload route (POST        *)
(* /api/upload with extractZip) and the image route (GET                    *)
(* /api/images/[...path]).  Paths, entry names and addresses are strings;   *)
(* the Node path functions are computed character by character.             *)
(***************************************************************************)
EXTENDS Integers, Sequences, FiniteSets, TLC

(***************************************************************************)
(* Strings                                                                 *)
(***************************************************************************)

\* Printable ASCII in code order, without the grave accent (code 96): the
\* character at index i of AsciiLow has code i + 31, of AsciiHigh i + 96.
AsciiLow == " !\"#$%&'()*+,-./0123456789:;<=>?@ABCDEFGHIJKLMNOPQRSTUVWXYZ[\\]^_"

AsciiHigh == "abcdefghijklmnopqrstuvwxyz{|}~"

CharAt(s, i) == SubSeq(s, i, i)

\* F applied to its arguments by value: each argument is evaluated once,
\* before F is applied. The operators below are defined through these, which
\* keeps an argument that is used several times from being evaluated again
\* at every use.
At(F(_), x) == CHOOSE r \in {F(v) : v \in {x}} : TRUE

At2(F(_, _), x, y) == CHOOSE r \in {F(v, w) : v \in {x}, w \in {y}} : TRUE

At3(F(_, _, _), x, y, z) ==
  CHOOSE r \in {F(v, w, u) : v \in {x}, w \in {y}, u \in {z}} : TRUE

\* Character to code.
CodeOf ==
  [c \in {CharAt(AsciiLow, i) : i \in 1..Len(AsciiLow)}
            \cup {CharAt(AsciiHigh, i) : i \in 1..Len(AsciiHigh)} |->
     IF \E i \in 1..Len(AsciiLow) : CharAt(AsciiLow, i) = c
     THEN 31 + CHOOSE i \in 1..Len(AsciiLow) : CharAt(AsciiLow, i) = c
     ELSE 96 + CHOOSE i \in 1..Len(AsciiHigh) : CharAt(AsciiHigh, i) = c]

CharCode(c) == CodeOf[c]

FromCharCode(n) == IF n < 96 THEN CharAt(AsciiLow, n - 31) ELSE CharAt(AsciiHigh, n - 96)

startsWith(s0, p0) ==
  At2(LAMBDA s, p :
    Len(p) <= Len(s) /\ SubSeq(s, 1, Len(p)) = p,
    s0, p0)

\* A faulty suffix test: every string passes.
endsWith_always(s0, p0) == TRUE

endsWith(s0, p0) ==
  At2(LAMBDA s, p :
    Len(p) <= Len(s) /\ SubSeq(s, Len(s) - Len(p) + 1, Len(s)) = p,
    s0, p0)

\* Positions of the character c in s.
IndicesOf(s0, c0) ==
  At2(LAMBDA s, c :
    {i \in 1..Len(s) : CharAt(s, i) = c},
    s0, c0)

SetMax(S0) ==
  At(LAMBDA S :
    CHOOSE m \in S : \A x \in S : x <= m,
    S0)

SetMin(S0) ==
  At(LAMBDA S :
    CHOOSE m \in S : \A x \in S : m <= x,
    S0)

\* String.prototype.split(sep) for a one-character separator.
RECURSIVE split(_, _)
split(s0, sep0) ==
  At2(LAMBDA s, sep :
    LET idx == IndicesOf(s, sep)
    IN IF idx = {} THEN <<s>>
       ELSE LET i == SetMin(idx)
            IN <<SubSeq(s, 1, i - 1)>>
                 \o split(SubSeq(s, i + 1, Len(s)), sep),
    s0, sep0)

\* Array.prototype.join(sep).
RECURSIVE joinWith(_, _)
joinWith(parts0, sep0) ==
  At2(LAMBDA parts, sep :
    IF Len(parts) = 0 THEN ""
    ELSE IF Len(parts) = 1 THEN parts[1]
    ELSE parts[1] \o sep \o joinWith(Tail(parts), sep),
    parts0, sep0)

\* String.prototype.toLowerCase on ASCII.
RECURSIVE toLowerCase(_)
toLowerCase(s0) ==
  At(LAMBDA s :
    IF Len(s) = 0 THEN ""
    ELSE LET c == CharAt(s, 1)
             n == CharCode(c)
         IN (IF n >= 65 /\ n <= 90 THEN FromCharCode(n + 32) ELSE c)
              \o toLowerCase(Tail(s)),
    s0)

\* Comparison by UTF-16 code units, the default order of Array.prototype.sort.
RECURSIVE StrLess(_, _)
StrLess(a0, b0) ==
  At2(LAMBDA a, b :
    IF Len(b) = 0 THEN FALSE
    ELSE IF Len(a) = 0 THEN TRUE
    ELSE IF CharAt(a, 1) = CharAt(b, 1)
         THEN StrLess(Tail(a), Tail(b))
    ELSE CharCode(CharAt(a, 1)) < CharCode(CharAt(b, 1)),
    a0, b0)

\* Number to decimal string, as in a template literal ${n}.
RECURSIVE ToStr(_)
ToStr(n0) ==
  At(LAMBDA n :
    IF n < 10 THEN FromCharCode(48 + n)
    ELSE ToStr(n \div 10) \o FromCharCode(48 + (n % 10)),
    n0)

\* String.prototype.replace(/\\/g, '/').
RECURSIVE replaceBackslashes(_)
replaceBackslashes(s0) ==
  At(LAMBDA s :
    IF Len(s) = 0 THEN ""
    ELSE (IF CharAt(s, 1) = "\\" THEN "/" ELSE CharAt(s, 1))
           \o replaceBackslashes(Tail(s)),
    s0)

HexDigits == "0123456789abcdef"

IsHex(c) == IndicesOf(HexDigits, toLowerCase(c)) # {}

HexVal(c) == (CHOOSE i \in 1..16 : CharAt(HexDigits, i) = toLowerCase(c)) - 1

\* The value standing for a thrown URIError.
URIError == "<URIError>"

\* decodeURIComponent on single-byte escapes; an escape that is malformed or
\* not a printable ASCII byte throws.
RECURSIVE decodeURIComponent(_)
decodeURIComponent(s0) ==
  At(LAMBDA s :
    IF Len(s) = 0 THEN ""
    ELSE IF CharAt(s, 1) # "%"
         THEN LET rest == decodeURIComponent(Tail(s))
              IN IF rest = URIError THEN URIError ELSE CharAt(s, 1) \o rest
    ELSE IF Len(s) < 3 \/ ~IsHex(CharAt(s, 2)) \/ ~IsHex(CharAt(s, 3))
         THEN URIError
    ELSE LET n == 16 * HexVal(CharAt(s, 2)) + HexVal(CharAt(s, 3))
             rest == decodeURIComponent(SubSeq(s, 4, Len(s)))
         IN IF n < 32 \/ n > 126 \/ n = 96 \/ rest = URIError THEN URIError
            ELSE FromCharCode(n) \o rest,
    s0)

(***************************************************************************)
(* Node path module (POSIX)                                                *)
(***************************************************************************)

SelectNonEmpty(parts) == SelectSeq(parts, LAMBDA p : p # "")

\* Resolves "." and ".." segments; allowAbove keeps leading ".." segments.
RECURSIVE normalizeParts(_, _, _)
normalizeParts(parts0, acc0, allowAbove0) ==
  At3(LAMBDA parts, acc, allowAbove :
    IF Len(parts) = 0 THEN acc
    ELSE LET p == Head(parts)
             next == IF p = "" \/ p = "." THEN acc
                     ELSE IF p = ".."
                          THEN IF Len(acc) > 0 /\ acc[Len(acc)] # ".."
                               THEN SubSeq(acc, 1, Len(acc) - 1)
                               ELSE IF allowAbove THEN Append(acc, "..") ELSE acc
                     ELSE Append(acc, p)
         IN normalizeParts(Tail(parts), next, allowAbove),
    parts0, acc0, allowAbove0)

\* path.normalize
normalize(p0) ==
  At(LAMBDA p :
    IF Len(p) = 0 THEN "."
    ELSE LET isAbsolute == CharAt(p, 1) = "/"
             trailing == CharAt(p, Len(p)) = "/"
             body == joinWith(normalizeParts(split(p, "/"), <<>>, ~isAbsolute), "/")
         IN IF isAbsolute
            THEN (IF body = "" THEN "/" ELSE "/" \o body \o (IF trailing THEN "/" ELSE ""))
            ELSE (IF body = "" THEN (IF trailing THEN "./" ELSE ".")
                  ELSE body \o (IF trailing THEN "/" ELSE "")),
    p0)

\* path.join(...segments)
pathJoin(segments0) ==
  At(LAMBDA segments :
    LET used == SelectNonEmpty(segments)
    IN IF Len(used) = 0 THEN "." ELSE normalize(joinWith(used, "/")),
    segments0)

\* path.resolve(p), with the process working directory cwd.
pathResolve(cwd0, p0) ==
  At2(LAMBDA cwd, p :
    LET full == IF Len(p) > 0 /\ CharAt(p, 1) = "/" THEN p ELSE cwd \o "/" \o p
        body == joinWith(normalizeParts(split(full, "/"), <<>>, FALSE), "/")
    IN "/" \o body,
    cwd0, p0)

RECURSIVE stripTrailingSlashes(_)
stripTrailingSlashes(p0) ==
  At(LAMBDA p :
    IF Len(p) > 1 /\ CharAt(p, Len(p)) = "/"
    THEN stripTrailingSlashes(SubSeq(p, 1, Len(p) - 1))
    ELSE p,
    p0)

\* path.basename(p)
basename(p0) ==
  At(LAMBDA p :
    LET q == stripTrailingSlashes(p)
        idx == IndicesOf(q, "/")
    IN IF q = "/" THEN ""
       ELSE IF idx = {} THEN q
       ELSE SubSeq(q, SetMax(idx) + 1, Len(q)),
    p0)

\* path.extname(p)
extname(p0) ==
  At(LAMBDA p :
    LET b == basename(p)
        dots == IndicesOf(b, ".")
    IN IF dots = {} \/ b = ".." THEN ""
       ELSE LET d == SetMax(dots)
            IN IF d = 1 THEN "" ELSE SubSeq(b, d, Len(b)),
    p0)

\* path.basename(p, ext)
basenameExt(p0, ext0) ==
  At2(LAMBDA p, ext :
    LET b == basename(p)
    IN IF ext # "" /\ b # ext /\ endsWith(b, ext)
       THEN SubSeq(b, 1, Len(b) - Len(ext))
       ELSE b,
    p0, ext0)

RECURSIVE commonPrefixLen(_, _)
commonPrefixLen(a0, b0) ==
  At2(LAMBDA a, b :
    IF Len(a) = 0 \/ Len(b) = 0 \/ Head(a) # Head(b) THEN 0
    ELSE 1 + commonPrefixLen(Tail(a), Tail(b)),
    a0, b0)

\* path.relative(from, to) for absolute paths.
relative(from0, to0) ==
  At2(LAMBDA from, to :
    LET f == SelectNonEmpty(split(pathResolve("/", from), "/"))
        t == SelectNonEmpty(split(pathResolve("/", to), "/"))
        k == commonPrefixLen(f, t)
        ups == [i \in 1..(Len(f) - k) |-> ".."]
    IN joinWith(ups \o SubSeq(t, k + 1, Len(t)), "/"),
    from0, to0)

(***************************************************************************)
(* Generic sequence helpers                                                *)
(***************************************************************************)

Range(s0) ==
  At(LAMBDA s :
    {s[i] : i \in 1..Len(s)},
    s0)

\* Array.from(new Set(list)): keeps the first occurrence of every element.
Dedup(s0) ==
  At(LAMBDA s :
    LET indexed == [i \in 1..Len(s) |-> <<i, s[i]>>]
        firsts == SelectSeq(indexed, LAMBDA p : \A j \in 1..(p[1] - 1) : s[j] # p[2])
    IN [k \in 1..Len(firsts) |-> firsts[k][2]],
    s0)

\* A faulty sort: the list is left in the order it has.
sort_asIs(s) == s

\* Array.prototype.sort() with the default comparison.
sort(s) == SortSeq(s, StrLess)



(***************************************************************************)
(* Bounds and program constants                                            *)
(***************************************************************************)

\* Longest container drawn from EntryNames.
MaxEntries == 2

\* Last value of the millisecond clock.
MaxTime == 2

\* Number of injected I/O failures in one behaviour.
MaxFaults == 1

\* The upload requests of one behaviour, numbered in the order they arrive.
Slots == {1, 2}

\* extractedFiles.length > 100
MaxImages == 100

\* finalUrls.length > 100
MaxUrls == 100

cwd == "/app"

UPLOAD_DIR == pathJoin(<<cwd, "uploads">>)

TEMP_DIR == pathJoin(<<cwd, "temp">>)

RoutePrefix == "/api/images/"

IMAGE_EXTENSIONS == <<".jpg", ".jpeg", ".png", ".gif", ".webp", ".bmp">>

Null == "<null>"

Pending == "<pending>"

(***************************************************************************)
(* Inputs                                                                  *)
(***************************************************************************)

\* Entry names the small containers are built from.
EntryNames == {"a.jpg", "s/a.jpg", "r.txt"}

SeqsUpTo(S, n) == UNION {[1..k -> S] : k \in 0..n}

\* n entries with pairwise different names and the same leaf name.
SameLeafContainer(n) == [k \in 1..n |-> ToStr(k) \o "/a.jpg"]

ScenarioContainers ==
  { <<"a.jpg", "sub/a.jpg", "b.png", "._b.png", "readme.txt", "empty_dir/">>,
    <<"x/a.jpg", "y/a.jpg", "a_1.jpg", "z/a_1.jpg">>,
    <<"a.jpg", "s/a.jpg", "a.jpg", "t/a.jpg">>,
    <<"B.PNG", "%41.png", "A.png">>,
    <<"%41.png">> }

\* Containers at the limit of the image count and just beyond it.
LargeContainers == {SameLeafContainer(MaxImages), SameLeafContainer(MaxImages + 1)}

Containers == SeqsUpTo(EntryNames, MaxEntries) \cup ScenarioContainers

\* The 'file' field of the form: absent, or a File with a name and bytes that
\* are a readable archive (valid) listing the entries, or are no archive.
NoFile == [present |-> FALSE, name |-> Null, valid |-> FALSE, entries |-> <<>>]

ZipFile(name, entries) == [present |-> TRUE, name |-> name, valid |-> TRUE, entries |-> entries]

Uploads ==
  {ZipFile("u.zip", c) : c \in Containers}
    \cup {[present |-> TRUE, name |-> "u.zip", valid |-> FALSE, entries |-> <<>>],
          ZipFile("u.txt", <<"a.jpg">>),
          NoFile}

\* Archives whose names exercise every rule of the entry filter.
FilterContainers ==
  { <<"._x.jpg", "d/._y.PNG", "c.GiF", ".bmp", "e.webp.txt", "jpg", "f.jpeg/", "g/h.JPEG">> }

\* Readable archives uploaded under names with and without the suffix.
NamedUploads == {ZipFile(n, <<"a.jpg">>) : n \in {"u.ZIP", "u.zip.txt", "zip", ".zip"}}

\* Uploads of the runs with one request and containers of every size.
SingleUploads ==
  Uploads \cup {ZipFile("u.zip", c) : c \in LargeContainers \cup FilterContainers}
    \cup NamedUploads

\* Uploads of the runs with concurrent requests.
ConcUploads == {ZipFile("u.zip", c) : c \in SeqsUpTo({"a.jpg", "r.txt"}, 1)}

\* Uploads of the runs with I/O failures.
FaultUploads ==
  {ZipFile("u.zip", c) : c \in SeqsUpTo({"a.jpg", "s/a.jpg", "r.txt"}, 2)
                                \cup {<<"a.jpg", "s/a.jpg", "t/a.jpg">>}}

\* The orders in which an archive may list the entries of the set S.
Orderings(S) == {c \in [1..Cardinality(S) -> S] : \A e \in S : \E k \in DOMAIN c : c[k] = e}

\* Uploads of the runs that compare the listing orders of one archive.
OrderUploads ==
  {ZipFile("u.zip", c) : c \in Orderings({"x/a.jpg", "y/a.jpg", "a_1.jpg"}) \cup {<<"r.txt">>}}

\* Files a user hands to the page.
ClientUploads ==
  {ZipFile("u.zip", c) : c \in {<<"a.jpg">>, <<"a.jpg", "s/a.jpg">>,
                                 <<"a.jpg", "r.txt", "b.png", "s/a.jpg">>, <<"r.txt">>}}
    \cup {ZipFile("u.txt", <<"a.jpg">>)}

\* Archives of the runs with classify requests: one image of every type.
ClassifyUploads ==
  {ZipFile("u.zip", c) : c \in {<<"a.jpg", "b.jpeg", "c.PNG", "d.gif", "e.webp", "f.bmp">>,
                                 <<"%41.png">>, <<"r.txt">>}}

\* The imageUrl of a classify request, besides the addresses an upload
\* returned.
ClassifyUrls ==
  { "/api/images/../../etc/passwd",
    "/api/images/..%2F..%2Fetc%2Fpasswd",
    "/api/images/../temp/upload_1.zip",
    "/api/images/%2e%2e/uploads2/k.jpg",
    "../../etc/passwd",
    "/api/images/extract_1/zz.jpg",
    "/api/images/extract_1",
    "/api/images/%zz" }

\* The body of a classify request: no JSON, or JSON with or without imageUrl.
ClassifyBodies(urls) ==
  {[valid |-> FALSE, imageUrl |-> Null], [valid |-> TRUE, imageUrl |-> Null]}
    \cup {[valid |-> TRUE, imageUrl |-> u] : u \in urls}

\* Texts the vision service answers with.
ServiceTexts ==
  { "{\"foreground\":\"a cat\",\"background\":\"a studio\",\"classification\":\"good\",\"rationale\":\"ok\"}",
    "{\"foreground\":\"a cup\",\"background\":\"plain white\",\"classification\":\"bad\",\"rationale\":\"plain\"}",
    "{\"foreground\":\"a cup\",\"background\":\"fog\",\"classification\":\"unknown\"}",
    "Here it is:\n{ \"background\": \"a room\",\n  \"classification\": \"BAD\" }\nDone.",
    "{\"background\":\"plain white wall\",\"classification\":\"maybe\"}",
    "{\"background\":\"a green room\",\"classification\":\"\"}",
    "{\"background\":\"White backdrop\"}",
    "{\"background\":\"the sky\",\"classification\":\"fine\"}",
    "{\"foreground\":\"a cup\",\"classification\":null}",
    "{\"background\":\"a studio\",\"classification\":5,\"rationale\":\"five\"}",
    "{\"background\":7,\"classification\":\"great\"}",
    "{}",
    "{oops}",
    "{\"classification\":\"good\"",
    "{\"classification\":\"good\"} and {\"classification\":\"bad\"}",
    "} {",
    "I cannot help with that.",
    "  a cat \n\n on a white plain backdrop \n",
    "" }

\* Status codes of a failed call of the vision service.
ServiceErrors == {401, 429, 500}

\* Addresses (the part after the routing prefix) a client may request besides
\* the ones an upload returned.
ProbeAddresses ==
  { "%2e%2e/%2e%2e/etc/passwd",
    "..%2fuploads2%2fk.jpg",
    "..%2fuploads2%2fzz.jpg",
    "extract_1",
    "..%2ftemp%2fupload_1.zip",
    "extract_1/..",
    "..",
    "extract_1/a.jpg",
    "extract_1/A.png",
    "extract_1/zz.jpg",
    "%zz" }

(***************************************************************************)
(* State                                                                   *)
(***************************************************************************)

VARIABLES
  files,      \* regular files on disk: path -> bytes
  dirs,       \* directories on disk
  now,        \* Date.now()
  faults,     \* I/O failures injected so far
  req,        \* the upload request handled in each slot
  getResp,    \* the response of the image request just served
  client,     \* the page: handleFile and the React state it sets
  classify    \* the classify request being served, and its answer

vars == <<files, dirs, now, faults, req, getResp, client, classify>>

\* Bytes: of upload number up, entry idx of its archive (0: the archive
\* itself, with its validity and entry list); complete is FALSE for a file
\* whose copy broke off.
Bytes(up, idx, valid, entries, complete) ==
  [up |-> up, idx |-> idx, valid |-> valid, entries |-> entries, complete |-> complete]

EntryBytes(up, idx) == Bytes(up, idx, FALSE, <<>>, TRUE)

NoBytes == Bytes(0, 0, FALSE, <<>>, FALSE)

NoResp == [status |-> 0, error |-> Null, imageUrls |-> <<>>, extractDir |-> Null]

IdleReq ==
  [ pc |-> "idle",
    file |-> NoFile,
    up |-> 0,
    tempZipPath |-> Null,
    extractDir |-> Null,
    zipUp |-> 0,
    zipfile |-> <<>>,
    entriesRead |-> 0,
    reading |-> 0,
    ended |-> FALSE,
    processedEntries |-> {},
    writePromises |-> <<>>,
    extractedFiles |-> <<>>,
    existingFiles |-> <<>>,
    uniqueUrls |-> <<>>,
    pendingError |-> Null,
    resp |-> NoResp ]

NoGet == [address |-> Null, status |-> 0, body |-> NoBytes, contentType |-> Null]

NoImage == [error |-> Null, filePath |-> Null, mimeType |-> Null, bytes |-> NoBytes]

NoAnswer ==
  [status |-> 0, error |-> Null, foreground |-> Null, background |-> Null,
   classification |-> Null, rationale |-> Null]

IdleClassify ==
  [pc |-> "idle", imageUrl |-> Null, base64Image |-> NoImage, content |-> Null,
   resp |-> NoAnswer]

\* The locals of one run of handleFile; outstanding and issued record its
\* classify requests.
IdleRun ==
  [ pc |-> "idle",
    shuffledUrls |-> <<>>,
    i |-> 0,
    outstanding |-> {},
    issued |-> <<>> ]

\* The page before a file is chosen: its React state, and the runs of
\* handleFile (run k sends its upload as request k).
IdleClient ==
  [ images |-> <<>>,
    uploading |-> FALSE,
    error |-> Null,
    progress |-> [current |-> 0, total |-> 0],
    run |-> [k \in Slots |-> IdleRun] ]

\* fs.existsSync
existsSync(p0) ==
  At(LAMBDA p :
    \/ p \in DOMAIN files
    \/ stripTrailingSlashes(p) \in dirs,
    p0)

\* The directory a path is directly in.
dirname(p0) ==
  At(LAMBDA p :
    LET idx == IndicesOf(p, "/")
    IN IF idx = {} THEN "." ELSE IF SetMax(idx) = 1 THEN "/" ELSE SubSeq(p, 1, SetMax(idx) - 1),
    p0)

IsUnder(p0, d0) ==
  At2(LAMBDA p, d :
    startsWith(p, d \o "/"),
    p0, d0)

\* fs.remove(p): the file, or the directory with everything in it.
removeFiles(fileMap0, p0) ==
  At2(LAMBDA fileMap, p :
    [q \in {q \in DOMAIN fileMap : q # p /\ ~IsUnder(q, p)} |-> fileMap[q]],
    fileMap0, p0)

\* A faulty fs.remove: the directory is left in place.
removeDirs_keep(dirSet, p) == dirSet

removeDirs(dirSet, p) == {d \in dirSet : d # p /\ ~IsUnder(d, p)}

writeFile(fileMap0, p0, bytes0) ==
  At3(LAMBDA fileMap, p, bytes :
    [q \in DOMAIN fileMap \cup {p} |-> IF q = p THEN bytes ELSE fileMap[q]],
    fileMap0, p0, bytes0)

\* A faulty extension test: every name passes.
isImageFile_any(filename) == TRUE

isImageFile(filename) ==
  toLowerCase(extname(filename)) \in Range(IMAGE_EXTENSIONS)

Init ==
  /\ files = [p \in {"/etc/passwd", "/app/uploads2/k.jpg"} |->
                Bytes(0, IF p = "/etc/passwd" THEN 1 ELSE 2, FALSE, <<>>, TRUE)]
  /\ dirs = {"/", "/etc", cwd, "/app/uploads2", UPLOAD_DIR, TEMP_DIR}
  /\ now = 1
  /\ faults = 0
  /\ req = [r \in Slots |-> IdleReq]
  /\ getResp = NoGet
  /\ client = IdleClient
  /\ classify = IdleClassify

(***************************************************************************)
(* extractZip                                                              *)
(***************************************************************************)

\* /\/$/.test(entry.fileName)
isDirectoryEntry(fileName) == endsWith(fileName, "/")

\* A faulty resource-fork test: it never matches.
isResourceFork_never(fileName) == FALSE

\* path.basename(entry.fileName).startsWith('._')
isResourceFork(fileName) == startsWith(basename(fileName), "._")

\* A faulty duplicate-entry test: it never matches.
alreadyProcessed_never(processedEntries, fileName) == FALSE

\* processedEntries.has(entry.fileName)
alreadyProcessed(processedEntries, fileName) == fileName \in processedEntries

\* The candidate the collision loop tries in its round counter (round 0:
\* the leaf name itself).
candidatePath(extractTo0, fileName0, counter0) ==
  At3(LAMBDA extractTo, fileName, counter :
    IF counter = 0 THEN pathJoin(<<extractTo, fileName>>)
    ELSE LET ext == extname(fileName)
             name == basenameExt(fileName, ext)
         IN pathJoin(<<extractTo, name \o "_" \o ToStr(counter) \o ext>>),
    extractTo0, fileName0, counter0)

\* A faulty collision loop: the body never runs, the leaf name is used as it is.
collisionLoop_noLoop(extractTo, fileName) == candidatePath(extractTo, fileName, 0)

\* A faulty collision loop: the counter starts at 2.
collisionLoop_from2(extractTo, fileName) ==
  LET rounds == {0} \cup 2..(Cardinality(DOMAIN files) + Cardinality(dirs) + 1)
      free == {k \in rounds : ~existsSync(candidatePath(extractTo, fileName, k))}
  IN candidatePath(extractTo, fileName, SetMin(free))

\* while (fs.existsSync(finalPath)) { finalPath = name_counter.ext; counter++ }
\* The loop leaves with the first candidate that does not exist; there is one
\* among the first (number of files and directories) + 1 candidates.
collisionLoop(extractTo0, fileName0) ==
  At2(LAMBDA extractTo, fileName :
    LET rounds == 0..(Cardinality(DOMAIN files) + Cardinality(dirs))
        free == {k \in rounds : ~existsSync(candidatePath(extractTo, fileName, k))}
    IN candidatePath(extractTo, fileName, SetMin(free)),
    extractTo0, fileName0)

\* The location the entry is written to.
resolveFinalPath(extractTo, entryName) == collisionLoop(extractTo, basename(entryName))

\* resolveWrite(v): settles the promise unless it is settled already.
resolveWrite(promise, v) ==
  IF promise.value = Pending THEN [promise EXCEPT !.value = v] ELSE promise

\* Public address of an extracted file.
imageUrl(filePath0) ==
  At(LAMBDA filePath :
    LET relativePath == relative(UPLOAD_DIR, filePath)
        urlPath == replaceBackslashes(relativePath)
        cleanPath == IF startsWith(urlPath, "/") THEN SubSeq(urlPath, 2, Len(urlPath)) ELSE urlPath
    IN RoutePrefix \o cleanPath,
    filePath0)

\* A faulty limit test: off by one.
tooManyExtracted_offByOne(n) == n > MaxImages + 1

\* extractedFiles.length > 100
tooManyExtracted(n) == n > MaxImages

\* finalUrls.length > 100
tooManyUrls(n) == n > MaxUrls

Set(r, rec) == req' = [req EXCEPT ![r] = rec]

Failed(q, status, message) ==
  [q EXCEPT !.pc = "done", !.resp = [NoResp EXCEPT !.status = status, !.error = message]]

\* POST up to the first await after the checks of the form.
PostStart(r, f) ==
  /\ req[r].pc = "idle"
  /\ LET q == [IdleReq EXCEPT !.file = f, !.up = r]
     IN Set(r, IF ~f.present
               THEN Failed(q, 500, "Cannot read properties of null (reading 'name')")
               ELSE IF ~endsWith(f.name, ".zip")
               THEN Failed(q, 400, "File must be a ZIP file")
               ELSE [q EXCEPT !.pc = "buffered"])
  /\ UNCHANGED <<files, dirs, now, faults>>

\* tempZipPath and fs.writeFile(tempZipPath, buffer)
WriteTemp(r) ==
  LET q == req[r]
      tempZipPath == pathJoin(<<TEMP_DIR, "upload_" \o ToStr(now) \o ".zip">>)
  IN /\ q.pc = "buffered"
     /\ files' = writeFile(files, tempZipPath,
                           Bytes(q.up, 0, q.file.valid, q.file.entries, TRUE))
     /\ Set(r, [q EXCEPT !.pc = "staged", !.tempZipPath = tempZipPath])
     /\ UNCHANGED <<dirs, now, faults>>

\* extractDir, mkdir(extractDir) and the call of extractZip.
Mkdir(r) ==
  LET q == req[r]
      extractDir == pathJoin(<<UPLOAD_DIR, "extract_" \o ToStr(now)>>)
  IN /\ q.pc = "staged"
     /\ dirs' = dirs \cup {extractDir}
     /\ Set(r, [q EXCEPT !.pc = "opening", !.extractDir = extractDir])
     /\ UNCHANGED <<files, now, faults>>

\* Callback of yauzl.open: reject, or the first readEntry().
ZipOpen(r) ==
  LET q == req[r]
      readable == q.tempZipPath \in DOMAIN files /\ files[q.tempZipPath].valid
  IN /\ q.pc = "opening"
     /\ Set(r, IF ~readable
               THEN Failed(q, 500, "end of central directory record signature not found")
               ELSE [q EXCEPT !.pc = "extracting",
                              !.zipUp = files[q.tempZipPath].up,
                              !.zipfile = files[q.tempZipPath].entries,
                              !.reading = 1])
     /\ UNCHANGED <<files, dirs, now, faults>>

\* zipfile.on('entry')
OnEntry(r) ==
  LET q == req[r]
      idx == q.entriesRead + 1
      fileName == q.zipfile[idx]
  IN /\ q.pc = "extracting"
     /\ q.reading > 0
     /\ q.entriesRead < Len(q.zipfile)
     /\ Set(r, IF alreadyProcessed(q.processedEntries, fileName)
               THEN [q EXCEPT !.entriesRead = idx]
               ELSE IF \/ isDirectoryEntry(fileName)
                       \/ ~isImageFile(fileName)
                       \/ isResourceFork(fileName)
               THEN [q EXCEPT !.entriesRead = idx,
                              !.processedEntries = @ \cup {fileName}]
               ELSE [q EXCEPT !.entriesRead = idx,
                              !.processedEntries = @ \cup {fileName},
                              !.reading = @ - 1,
                              !.writePromises = Append(@,
                                 [entry |-> idx, value |-> Pending,
                                  finalPath |-> Null, stage |-> "opening"])])
     /\ UNCHANGED <<files, dirs, now, faults>>

\* Callback of zipfile.openReadStream without error: the collision loop,
\* createWriteStream and pipe.
OpenReadStreamCb(r, i) ==
  LET q == req[r]
      w == q.writePromises[i]
  IN /\ q.pc = "extracting"
     /\ w.stage = "opening"
     /\ Set(r, [q EXCEPT !.writePromises[i] =
                  [w EXCEPT !.finalPath = resolveFinalPath(q.extractDir, q.zipfile[w.entry]),
                            !.stage = "piping"]])
     /\ UNCHANGED <<files, dirs, now, faults>>

\* The write stream creates the file and writes the entry's bytes.
CopyData(r, i) ==
  LET q == req[r]
      w == q.writePromises[i]
  IN /\ q.pc = "extracting"
     /\ w.stage = "piping"
     /\ dirname(w.finalPath) \in dirs
     /\ files' = writeFile(files, w.finalPath, EntryBytes(q.zipUp, w.entry))
     /\ Set(r, [q EXCEPT !.writePromises[i] = [w EXCEPT !.stage = "written"]])
     /\ UNCHANGED <<dirs, now, faults>>

\* writeStream.on('error'): resolveWrite(null) and readEntry(); the stream
\* emits 'close' afterwards.
writeStreamOnError(q, i) ==
  [q EXCEPT !.writePromises[i] = [resolveWrite(@, Null) EXCEPT !.stage = "errored"],
            !.reading = @ + 1]

\* The write stream cannot create the file: its directory is gone.
WriteStreamENOENT(r, i) ==
  LET q == req[r]
      w == q.writePromises[i]
  IN /\ q.pc = "extracting"
     /\ w.stage = "piping"
     /\ dirname(w.finalPath) \notin dirs
     /\ Set(r, writeStreamOnError(q, i))
     /\ UNCHANGED <<files, dirs, now, faults>>

\* writeStream.on('close')
OnWriteClose(r, i) ==
  LET q == req[r]
      w == q.writePromises[i]
  IN /\ q.pc = "extracting"
     /\ w.stage \in {"written", "errored"}
     /\ Set(r, [q EXCEPT !.writePromises[i] =
                  [resolveWrite(w, IF existsSync(w.finalPath) THEN w.finalPath ELSE Null)
                     EXCEPT !.stage = "closed"],
                         !.reading = @ + 1])
     /\ UNCHANGED <<files, dirs, now, faults>>

\* zipfile.on('end')
OnEnd(r) ==
  LET q == req[r]
  IN /\ q.pc = "extracting"
     /\ q.reading > 0
     /\ q.entriesRead = Len(q.zipfile)
     /\ ~q.ended
     /\ Set(r, [q EXCEPT !.ended = TRUE, !.reading = @ - 1])
     /\ UNCHANGED <<files, dirs, now, faults>>

\* The list extractZip resolves with.
uniqueFilesOf(writePromises0) ==
  At(LAMBDA writePromises :
    LET fulfilled == SelectSeq(writePromises, LAMBDA w : w.value # Null)
        successfulFiles == [k \in 1..Len(fulfilled) |-> fulfilled[k].value]
    IN Dedup(successfulFiles),
    writePromises0)

\* A faulty join: it does not wait for the promises.
allSettled_noWait(writePromises) == TRUE

\* Promise.allSettled(writePromises) is fulfilled: every promise is settled.
allSettled(writePromises) ==
  \A k \in 1..Len(writePromises) : writePromises[k].value # Pending

\* Promise.allSettled(writePromises).then: extractZip resolves, and POST
\* runs on to its next await.
ExtractResolved(r) ==
  LET q == req[r]
  IN /\ q.pc = "extracting"
     /\ q.ended
     /\ allSettled(q.writePromises)
     /\ \E extractedFiles \in {uniqueFilesOf(q.writePromises)} :
          IF Len(extractedFiles) = 0
          THEN Set(r, [q EXCEPT !.pc = "removeDir", !.extractedFiles = extractedFiles,
                                !.pendingError = "No images found in ZIP file"])
          ELSE IF tooManyExtracted(Len(extractedFiles))
          THEN Set(r, [q EXCEPT !.pc = "removeDir", !.extractedFiles = extractedFiles,
                                !.pendingError = "ZIP file contains more than 100 images"])
          ELSE \E sorted \in {sort(extractedFiles)} :
               \E uniqueFiles \in {Dedup(sorted)} :
               \E existingFiles \in {SelectSeq(uniqueFiles, existsSync)} :
               \E imageUrls \in {[k \in 1..Len(existingFiles) |->
                                     imageUrl(existingFiles[k])]} :
               \E uniqueUrls \in {Dedup(imageUrls)} :
                 Set(r, [q EXCEPT !.pc = "removeTemp", !.extractedFiles = sorted,
                                  !.existingFiles = existingFiles,
                                  !.uniqueUrls = uniqueUrls])
     /\ UNCHANGED <<files, dirs, now, faults>>

\* fs.remove(extractDir) of the two count checks.
RemoveExtractDir(r) ==
  LET q == req[r]
  IN /\ q.pc = "removeDir"
     /\ files' = removeFiles(files, q.extractDir)
     /\ dirs' = removeDirs(dirs, q.extractDir)
     /\ Set(r, [q EXCEPT !.pc = "removeTemp"])
     /\ UNCHANGED <<now, faults>>

\* fs.remove(tempZipPath) and the response.
RemoveTemp(r) ==
  LET q == req[r]
      finalUrls == Dedup(q.uniqueUrls)
  IN /\ q.pc = "removeTemp"
     /\ files' = removeFiles(files, q.tempZipPath)
     /\ Set(r, IF q.pendingError # Null
               THEN Failed(q, 400, q.pendingError)
               ELSE IF tooManyUrls(Len(finalUrls))
               THEN Failed(q, 400, "Too many images")
               ELSE [q EXCEPT !.pc = "done",
                              !.resp = [status |-> 200, error |-> Null,
                                        imageUrls |-> finalUrls,
                                        extractDir |-> q.extractDir]])
     /\ UNCHANGED <<dirs, now, faults>>

\* The clock reaches the next millisecond.
Tick ==
  /\ now < MaxTime
  /\ now' = now + 1
  /\ UNCHANGED <<files, dirs, faults, req>>

(***************************************************************************)
(* GET /api/images/[...path]                                               *)
(***************************************************************************)

\* params.path of the catch-all route: the address split at '/', every
\* segment decoded.
pathSegmentsOf(address) ==
  LET raw == SelectNonEmpty(split(address, "/"))
  IN [k \in 1..Len(raw) |-> decodeURIComponent(raw[k])]

\* The framework answers an address it cannot decode itself.
decodable(address) == URIError \notin Range(pathSegmentsOf(address))

contentTypeOf(filePath) ==
  LET ext == toLowerCase(extname(filePath))
  IN IF ext = ".png" THEN "image/png"
     ELSE IF ext = ".gif" THEN "image/gif"
     ELSE IF ext = ".webp" THEN "image/webp"
     ELSE IF ext = ".bmp" THEN "image/bmp"
     ELSE "image/jpeg"

\* !resolvedPath.startsWith(resolvedUploadDir)
insideUploadDir(resolvedPath, resolvedUploadDir) == startsWith(resolvedPath, resolvedUploadDir)

\* The route handler, for the segments the framework passes.
GETResponse(address, pathSegments) ==
  LET filePath == pathJoin(<<UPLOAD_DIR>> \o pathSegments)
      resolvedPath == pathResolve(cwd, filePath)
      resolvedUploadDir == pathResolve(cwd, UPLOAD_DIR)
      answer(status, body, type) ==
        [address |-> address, status |-> status, body |-> body, contentType |-> type]
  IN IF Len(pathSegments) = 0 THEN answer(400, NoBytes, Null)
     ELSE IF ~insideUploadDir(resolvedPath, resolvedUploadDir) THEN answer(403, NoBytes, Null)
     ELSE IF ~existsSync(filePath) THEN answer(404, NoBytes, Null)
     ELSE IF filePath \notin DOMAIN files THEN answer(500, NoBytes, Null)
     ELSE answer(200, files[filePath], contentTypeOf(filePath))

\* The addresses the uploads that have answered returned.
ReturnedAddresses ==
  UNION {{SubSeq(u, Len(RoutePrefix) + 1, Len(u)) : u \in Range(req[r].resp.imageUrls)}
           : r \in Slots}

Get(address) ==
  /\ getResp' = (IF ~decodable(address)
                 THEN [address |-> address, status |-> 400, body |-> NoBytes, contentType |-> Null]
                 ELSE GETResponse(address, pathSegmentsOf(address)))
  /\ getResp' # getResp
  /\ UNCHANGED <<files, dirs, now, faults, req>>

(***************************************************************************)
(* I/O failures of one entry's copy                                        *)
(***************************************************************************)

\* Callback of zipfile.openReadStream with an error.
OpenReadStreamErr(r, i) ==
  LET q == req[r]
      w == q.writePromises[i]
  IN /\ q.pc = "extracting"
     /\ w.stage = "opening"
     /\ faults < MaxFaults
     /\ faults' = faults + 1
     /\ Set(r, [q EXCEPT !.writePromises[i] = [resolveWrite(w, Null) EXCEPT !.stage = "closed"],
                         !.reading = @ + 1])
     /\ UNCHANGED <<files, dirs, now>>

\* The write stream fails, before or after it created the file.
WriteStreamFault(r, i) ==
  LET q == req[r]
      w == q.writePromises[i]
  IN /\ q.pc = "extracting"
     /\ w.stage = "piping"
     /\ dirname(w.finalPath) \in dirs
     /\ faults < MaxFaults
     /\ faults' = faults + 1
     /\ \E created \in BOOLEAN :
          files' = IF created
                   THEN writeFile(files, w.finalPath, Bytes(q.zipUp, w.entry, FALSE, <<>>, FALSE))
                   ELSE files
     /\ Set(r, writeStreamOnError(q, i))
     /\ UNCHANGED <<dirs, now>>

\* The entry's read stream emits 'error' during the copy: no handler is
\* registered for it, pipe stops, and the write stream is never ended.
ReadStreamFault(r, i) ==
  LET q == req[r]
      w == q.writePromises[i]
  IN /\ q.pc = "extracting"
     /\ w.stage = "piping"
     /\ dirname(w.finalPath) \in dirs
     /\ faults < MaxFaults
     /\ faults' = faults + 1
     /\ files' = writeFile(files, w.finalPath, Bytes(q.zipUp, w.entry, FALSE, <<>>, FALSE))
     /\ Set(r, [q EXCEPT !.writePromises[i] = [w EXCEPT !.stage = "stalled"]])
     /\ UNCHANGED <<dirs, now>>

\* Two readEntry() calls are in flight with entries left to read: the
\* 'error' and the 'close' handler of one write stream have both called it.
overlappingReadEntry(q) == q.reading >= 2 /\ q.entriesRead < Len(q.zipfile)

\* zipfile.on('error'): the overlapping reads of the central directory make
\* the archive reader fail (they may also be served one after the other, as
\* OnEntry does); extractZip rejects and POST answers from its catch block.
OnZipfileError(r) ==
  LET q == req[r]
  IN /\ q.pc = "extracting"
     /\ overlappingReadEntry(q)
     /\ Set(r, Failed(q, 500, "invalid central directory file header signature"))
     /\ UNCHANGED <<files, dirs, now, faults>>

(***************************************************************************)
(* Text functions of the classify route                                    *)
(***************************************************************************)

\* String.prototype.includes
includes(s0, sub0) ==
  At2(LAMBDA s, sub :
    \E i \in 1..(Len(s) - Len(sub) + 1) : SubSeq(s, i, i + Len(sub) - 1) = sub,
    s0, sub0)

IsSpace(c) == c \in {" ", "\n", "\t", "\r"}

\* String.prototype.trim
trim(s0) ==
  At(LAMBDA s :
    LET solid == {i \in 1..Len(s) : ~IsSpace(CharAt(s, i))}
    IN IF solid = {} THEN "" ELSE SubSeq(s, SetMin(solid), SetMax(solid)),
    s0)

\* String.prototype.substring(0, n)
substring0(s0, n0) ==
  At2(LAMBDA s, n :
    IF Len(s) <= n THEN s ELSE SubSeq(s, 1, n),
    s0, n0)

\* content.match(/\{[\s\S]*\}/): from the first opening brace to the last
\* closing brace, Null without such a pair.
jsonMatch(content0) ==
  At(LAMBDA content :
    LET opens == IndicesOf(content, "{")
        closes == IndicesOf(content, "}")
    IN IF opens = {} \/ closes = {} THEN Null
       ELSE IF SetMin(opens) > SetMax(closes) THEN Null
       ELSE SubSeq(content, SetMin(opens), SetMax(closes)),
    content0)

\* The value standing for a thrown SyntaxError.
SyntaxError == "<SyntaxError>"

\* The value standing for a thrown TypeError.
TypeError == "<TypeError>"

\* The first position from i on that holds no white space.
skipWs(s0, i0) ==
  At2(LAMBDA s, i :
    SetMin({j \in i..(Len(s) + 1) : j = Len(s) + 1 \/ ~IsSpace(CharAt(s, j))}),
    s0, i0)

Digits == "0123456789"

\* A JSON value read at position i: <<value, next position>>, or
\* SyntaxError. Read are strings without escape sequence, non-negative
\* integers, and true, false, null.
jsonValueAt(s0, i0) ==
  At2(LAMBDA s, i :
    IF i > Len(s) THEN SyntaxError
    ELSE IF CharAt(s, i) = "\""
    THEN LET ends == {j \in (i + 1)..Len(s) : CharAt(s, j) = "\""}
         IN IF ends = {} THEN SyntaxError
            ELSE LET j == SetMin(ends)
                     text == SubSeq(s, i + 1, j - 1)
                 IN IF \E k \in 1..Len(text) : CharAt(text, k) \in {"\\", "\n", "\t", "\r"}
                    THEN SyntaxError
                    ELSE <<[type |-> "string", value |-> text], j + 1>>
    ELSE IF IndicesOf(Digits, CharAt(s, i)) # {}
    THEN LET stop == SetMin({j \in i..(Len(s) + 1) :
                               j = Len(s) + 1 \/ IndicesOf(Digits, CharAt(s, j)) = {}})
         IN IF CharAt(s, i) = "0" /\ stop > i + 1 THEN SyntaxError
            ELSE <<[type |-> "number", value |-> SubSeq(s, i, stop - 1)], stop>>
    ELSE IF i + 3 <= Len(s) /\ SubSeq(s, i, i + 3) = "null"
    THEN <<[type |-> "null", value |-> "null"], i + 4>>
    ELSE IF i + 3 <= Len(s) /\ SubSeq(s, i, i + 3) = "true"
    THEN <<[type |-> "boolean", value |-> "true"], i + 4>>
    ELSE IF i + 4 <= Len(s) /\ SubSeq(s, i, i + 4) = "false"
    THEN <<[type |-> "boolean", value |-> "false"], i + 5>>
    ELSE SyntaxError,
    s0, i0)

\* The members of a JSON object from position i on, up to the closing brace
\* that ends the text: the sequence of <<key, value>>, or SyntaxError.
RECURSIVE jsonMembers(_, _, _)

\* After a member: a comma and the next member, or the closing brace.
membersNext(s, members, after) ==
  IF after > Len(s) THEN SyntaxError
  ELSE IF CharAt(s, after) = "," THEN jsonMembers(s, after + 1, members)
  ELSE IF CharAt(s, after) = "}" /\ skipWs(s, after + 1) = Len(s) + 1 THEN members
  ELSE SyntaxError

membersAfterValue(s, acc, name, val) ==
  IF val = SyntaxError THEN SyntaxError
  ELSE membersNext(s, Append(acc, <<name, val[1]>>), skipWs(s, val[2]))

membersAfterColon(s, acc, name, colon) ==
  IF colon > Len(s) THEN SyntaxError
  ELSE IF CharAt(s, colon) # ":" THEN SyntaxError
  ELSE membersAfterValue(s, acc, name, jsonValueAt(s, skipWs(s, colon + 1)))

membersAfterKey(s, acc, key) ==
  IF key = SyntaxError THEN SyntaxError
  ELSE IF key[1].type # "string" THEN SyntaxError
  ELSE membersAfterColon(s, acc, key[1].value, skipWs(s, key[2]))

jsonMembers(s, i, acc) == membersAfterKey(s, acc, jsonValueAt(s, skipWs(s, i)))

\* JSON.parse of a text that starts with an opening brace.
JSONparse(text0) ==
  At(LAMBDA text :
    LET first == skipWs(text, 2)
    IN IF first > Len(text) THEN SyntaxError
       ELSE IF CharAt(text, first) = "}"
       THEN IF skipWs(text, first + 1) = Len(text) + 1 THEN <<>> ELSE SyntaxError
       ELSE jsonMembers(text, 2, <<>>),
    text0)

Undefined == [type |-> "undefined", value |-> "undefined"]

\* parsed.key: the value of the last member with that key.
member(parsed0, key0) ==
  At2(LAMBDA parsed, key :
    LET at == {k \in 1..Len(parsed) : parsed[k][1] = key}
    IN IF at = {} THEN Undefined ELSE parsed[SetMax(at)][2],
    parsed0, key0)

\* ToBoolean of a value.
truthy(v) ==
  /\ v.type \notin {"undefined", "null"}
  /\ v.value \notin {"", "0", "false"}

\* value || fallback
orElse(v, fallback) == IF truthy(v) THEN v ELSE [type |-> "string", value |-> fallback]

(***************************************************************************)
(* POST /api/classify                                                      *)
(***************************************************************************)

\* The plain-text fallback of the response parsing: the first two non-blank
\* lines, or the first 50 characters.
textFallback(content0, rationale0) ==
  At2(LAMBDA content, rationale :
    LET lines == SelectSeq(split(content, "\n"), LAMBDA line : trim(line) # "")
    IN [ foreground |-> IF Len(lines) >= 2 THEN substring0(trim(lines[1]), 50)
                        ELSE substring0(content, 50),
         background |-> IF Len(lines) >= 2 THEN substring0(trim(lines[2]), 50)
                        ELSE "Unable to determine",
         classification |-> "unknown",
         rationale |-> rationale ],
    content0, rationale0)

\* A faulty inference: the background is never looked at.
inferFromBackground_unknown(bgLower) == "unknown"

\* The classification inferred from the background description.
inferFromBackground(bgLower) ==
  IF /\ includes(bgLower, "white")
     /\ \/ includes(bgLower, "plain")
        \/ includes(bgLower, "backdrop")
        \/ includes(bgLower, "background")
  THEN "bad"
  ELSE IF \/ includes(bgLower, "room")
          \/ includes(bgLower, "studio")
          \/ includes(bgLower, "colored")
          \/ includes(bgLower, "color")
  THEN "good"
  ELSE "unknown"

\* value.toLowerCase(): of a string; TypeError for a value without the
\* method.
lowerCaseOf(v) == IF v.type = "string" THEN toLowerCase(v.value) ELSE TypeError

\* A faulty test of the classification value: every value passes.

\* classValue === 'good' || classValue === 'bad' || classValue === 'unknown'
isClassValue(classValue) == classValue \in {"good", "bad", "unknown"}

\* parsed.classification?.toLowerCase()
classValueOf(class) ==
  IF class.type \in {"undefined", "null"} THEN Null ELSE lowerCaseOf(class)

\* The fields of the answer once the members of the parsed object are read:
\* the classification as given, inferred from the background, or the
\* fallback of the catch block when a member has no toLowerCase.
fieldsOfMembers(content, foreground, background, rationale, classValue) ==
  IF classValue = TypeError THEN textFallback(content, rationale.value)
  ELSE IF isClassValue(classValue)
  THEN [ foreground |-> foreground.value, background |-> background.value,
         classification |-> classValue, rationale |-> rationale.value ]
  ELSE IF lowerCaseOf(background) = TypeError
  THEN textFallback(content, rationale.value)
  ELSE [ foreground |-> foreground.value, background |-> background.value,
         classification |-> inferFromBackground(lowerCaseOf(background)),
         rationale |-> rationale.value ]

\* The fields of the answer for the result of JSON.parse.
fieldsOfParsed(content, parsed) ==
  IF parsed = SyntaxError THEN textFallback(content, "No rationale provided")
  ELSE fieldsOfMembers(content,
         orElse(member(parsed, "foreground"), "Unable to describe"),
         orElse(member(parsed, "background"), "Unable to describe"),
         orElse(member(parsed, "rationale"), "No rationale provided"),
         classValueOf(member(parsed, "classification")))

\* The fields of the answer for the result of content.match.
fieldsOfMatch(content, jsonText) ==
  IF jsonText = Null THEN textFallback(content, "No rationale provided")
  ELSE fieldsOfParsed(content, JSONparse(jsonText))

\* The fields of the answer computed from the text of the vision service.
parseContent(content) == fieldsOfMatch(content, jsonMatch(content))

\* String.prototype.replace(pattern, '') for a string pattern: the first
\* occurrence is removed.
removeFirst(s0, pattern0) ==
  At2(LAMBDA s, pattern :
    LET at == {i \in 1..(Len(s) - Len(pattern) + 1) : SubSeq(s, i, i + Len(pattern) - 1) = pattern}
    IN IF at = {} THEN s
       ELSE SubSeq(s, 1, SetMin(at) - 1) \o SubSeq(s, SetMin(at) + Len(pattern), Len(s)),
    s0, pattern0)

\* A faulty MIME table: png is taken for the default.
mimeTypeOf_noPng(filePath) == "image/jpeg"

\* The MIME type getImageBase64 puts into the data URL.
mimeTypeOf(filePath) ==
  LET ext == toLowerCase(extname(filePath))
  IN IF ext = ".png" THEN "image/png"
     ELSE IF ext = ".gif" THEN "image/gif"
     ELSE IF ext = ".webp" THEN "image/webp"
     ELSE IF ext = ".bmp" THEN "image/bmp"
     ELSE "image/jpeg"

\* getImageBase64: the data URL of the file an imageUrl names, or the error
\* it throws.
getImageBase64(imageUrl0) ==
  At(LAMBDA url :
    LET urlPath == removeFirst(url, RoutePrefix)
        decodedPath == decodeURIComponent(urlPath)
        filePath == pathJoin(<<UPLOAD_DIR, decodedPath>>)
    IN IF decodedPath = URIError THEN [NoImage EXCEPT !.error = "URI malformed"]
       ELSE IF ~existsSync(filePath)
       THEN [NoImage EXCEPT !.error = "Image file not found: " \o filePath]
       ELSE IF filePath \notin DOMAIN files
       THEN [NoImage EXCEPT !.error = "EISDIR: illegal operation on a directory, read"]
       ELSE [error |-> Null, filePath |-> filePath, mimeType |-> mimeTypeOf(filePath),
             bytes |-> files[filePath]],
    imageUrl0)

\* The error answers: the fields of the body and the status.
errorAnswer(status, error, background) ==
  [status |-> status, error |-> error, foreground |-> "Error", background |-> background,
   classification |-> "unknown", rationale |-> background]

\* The answer of the outer catch block.
caught(message) == errorAnswer(500, message, message)

\* POST up to the call of the vision service: the checks of the
\* configuration and of the body, and getImageBase64.
ClassifyStart(keyConfigured, body) ==
  /\ classify.pc \in {"idle", "done"}
  /\ \E base64Image \in {IF keyConfigured /\ body.valid /\ body.imageUrl \notin {Null, ""}
                         THEN getImageBase64(body.imageUrl) ELSE NoImage} :
       classify' =
         IF ~keyConfigured
         THEN [IdleClassify EXCEPT !.pc = "done",
                 !.resp = errorAnswer(500, "OpenAI API key not configured", "API key not configured")]
         ELSE IF ~body.valid
         THEN [IdleClassify EXCEPT !.pc = "done",
                 !.resp = errorAnswer(400, "Invalid request format", "Invalid request")]
         ELSE IF body.imageUrl \in {Null, ""}
         THEN [IdleClassify EXCEPT !.pc = "done",
                 !.resp = [NoAnswer EXCEPT !.status = 400, !.error = "Image URL required"]]
         ELSE IF base64Image.error # Null
         THEN [IdleClassify EXCEPT !.pc = "done", !.imageUrl = body.imageUrl,
                 !.resp = caught(base64Image.error)]
         ELSE [IdleClassify EXCEPT !.pc = "calling", !.imageUrl = body.imageUrl,
                 !.base64Image = base64Image]
  /\ UNCHANGED <<files, dirs, now, faults, req, client>>

\* openai.chat.completions.create fails: the error is thrown again, with a
\* message of its own for the status 429 and 401.
ServiceFails(status) ==
  /\ classify.pc = "calling"
  /\ classify' = [classify EXCEPT !.pc = "done", !.resp =
       caught(IF status = 429
              THEN "OpenAI API quota exceeded. Please check your account or upgrade your plan."
              ELSE IF status = 401 THEN "OpenAI API key is invalid or expired."
              ELSE ToStr(status) \o " status code (no body)")]
  /\ UNCHANGED <<files, dirs, now, faults, req, client>>

\* The vision service answers with a text: the response parsing and the
\* answer.
ServiceAnswers(content) ==
  /\ classify.pc = "calling"
  /\ \E fields \in {parseContent(content)} :
       classify' = [classify EXCEPT !.pc = "done", !.content = content, !.resp =
         [status |-> 200, error |-> Null, foreground |-> fields.foreground,
          background |-> fields.background, classification |-> fields.classification,
          rationale |-> fields.rationale]]
  /\ UNCHANGED <<files, dirs, now, faults, req, client>>

(***************************************************************************)
(* The page: handleFile                                                    *)
(***************************************************************************)

ClientOnly == UNCHANGED <<files, dirs, now, faults, req, classify>>

\* The end of handleFile: finally { setUploading(false) }.
finish(c, k) == [c EXCEPT !.run[k].pc = "finished", !.uploading = FALSE]

\* The outer catch block: setError(err.message).
fail(c, k, message) == finish([c EXCEPT !.error = message], k)

\* handleFile up to the await of the upload request.
HandleFile(k, f) ==
  /\ client.run[k].pc = "idle"
  /\ IF ~endsWith(f.name, ".zip")
     THEN /\ client' = [client EXCEPT !.run[k].pc = "finished",
                                       !.error = "Please upload a ZIP file"]
          /\ ClientOnly
     ELSE /\ client' = [client EXCEPT !.run[k].pc = "upload",
                                       !.error = Null,
                                       !.uploading = TRUE,
                                       !.images = <<>>,
                                       !.progress = [current |-> 0, total |-> 0]]
          /\ PostStart(k, f)
          /\ UNCHANGED classify

\* The upload request is answered: the checks of the response, the shuffle
\* and the initial images. asked is the imageUrl of the classify request
\* whose outcome the card shows.
UploadResponse(k) ==
  LET resp == req[k].resp
      imageUrls == resp.imageUrls
      uniqueUrls == Dedup(imageUrls)
  IN /\ client.run[k].pc = "upload"
     /\ req[k].pc = "done"
     /\ IF resp.status # 200 THEN client' = fail(client, k, resp.error)
        ELSE IF Len(imageUrls) = 0
        THEN client' = fail(client, k, "No images found in the ZIP file")
        ELSE IF Len(imageUrls) > 100
        THEN client' = fail(client, k, "ZIP file contains more than 100 images")
        ELSE \E shuffledUrls \in Orderings(Range(uniqueUrls)) :
               client' = [client EXCEPT
                            !.run[k].pc = "loop",
                            !.run[k].shuffledUrls = shuffledUrls,
                            !.run[k].i = 0,
                            !.progress = [current |-> 0, total |-> Len(shuffledUrls)],
                            !.images = [n \in 1..Len(shuffledUrls) |->
                                          [url |-> shuffledUrls[n], status |-> "processing",
                                           foreground |-> Null,
                                           classification |-> Null,
                                           asked |-> Null]]]
     /\ ClientOnly

\* The loop test, and fetch('/api/classify') for image i.
ClassifyIssue(k) ==
  LET run == client.run[k]
  IN /\ run.pc = "loop"
     /\ client' = IF run.i < Len(run.shuffledUrls)
                  THEN [client EXCEPT !.run[k].pc = "fetch",
                                      !.run[k].outstanding = @ \cup {run.i},
                                      !.run[k].issued = Append(@, run.i)]
                  ELSE finish(client, k)
     /\ ClientOnly

\* setImages(prev => prev.map((img, idx) => idx === i ? {...} : img)) and
\* setProgress of run k, and the step of its loop.
storeResult(c, k, foreground, classification) ==
  LET run == c.run[k]
  IN [c EXCEPT !.images = [idx \in 1..Len(c.images) |->
                             IF idx - 1 = run.i
                             THEN [c.images[idx] EXCEPT !.status = "completed",
                                                        !.foreground = foreground,
                                                        !.classification = classification,
                                                        !.asked = run.shuffledUrls[run.i + 1]]
                             ELSE c.images[idx]],
               !.progress = [current |-> run.i + 1, total |-> Len(run.shuffledUrls)],
               !.run[k].outstanding = @ \ {run.i},
               !.run[k].i = run.i + 1,
               !.run[k].pc = "loop"]

\* A faulty catch block: the error ends the loop.
classifyCatch_abort(c, k) == finish([c EXCEPT !.run[k].outstanding = {}], k)

\* The catch block of the loop body: image i is marked, and the loop goes on.
classifyCatch(c, k) == storeResult(c, k, "Error", "unknown")

\* The classify request is answered, or fails.
ClassifyFetchSettled(k) ==
  /\ client.run[k].pc = "fetch"
  /\ \E outcome \in {"ok", "notOk", "rejected"} :
       client' = IF outcome = "ok" THEN [client EXCEPT !.run[k].pc = "body"]
                 ELSE IF outcome = "notOk" THEN [client EXCEPT !.run[k].pc = "errorBody"]
                 ELSE classifyCatch(client, k)
  /\ ClientOnly

\* classifyResponse.json() of an error response; its failure is caught and
\* the error is thrown either way.
ClassifyErrorBody(k) ==
  /\ client.run[k].pc = "errorBody"
  /\ client' = classifyCatch(client, k)
  /\ ClientOnly

\* classifyResponse.json() of a result: the image is marked, or the body
\* cannot be parsed.
ClassifyBody(k) ==
  /\ client.run[k].pc = "body"
  /\ \E classification \in {"good", "bad", "unknown", Null} :
       client' = IF classification = Null THEN classifyCatch(client, k)
                 ELSE storeResult(client, k, "Unable to describe", classification)
  /\ ClientOnly

\* handleReset, of the RESET button that is shown while there are images.
HandleReset ==
  /\ Len(client.images) > 0
  /\ client' = [client EXCEPT !.images = <<>>,
                              !.error = Null,
                              !.progress = [current |-> 0, total |-> 0]]
  /\ ClientOnly

(***************************************************************************)
(* Specifications                                                          *)
(***************************************************************************)

\* A step of the upload r after its start, without I/O failure.
UploadStep(r) ==
  \/ WriteTemp(r)
  \/ Mkdir(r)
  \/ ZipOpen(r)
  \/ OnEntry(r)
  \/ \E i \in 1..Len(req[r].writePromises) : OpenReadStreamCb(r, i)
  \/ \E i \in 1..Len(req[r].writePromises) : CopyData(r, i)
  \/ \E i \in 1..Len(req[r].writePromises) : OnWriteClose(r, i)
  \/ OnEnd(r)
  \/ ExtractResolved(r)
  \/ RemoveExtractDir(r)
  \/ RemoveTemp(r)

\* Every earlier request has been answered.
Serial(r) == \A s \in Slots : s < r => req[s].pc = "done"

\* No upload is between its start and its response.
Quiet == \A r \in Slots : req[r].pc \in {"idle", "done"}

\* Spec: one upload at a time, no I/O failure; image requests are served
\* between the uploads, each from a state an upload step left (a request
\* changes nothing but its own response).
Next ==
  /\ UNCHANGED <<client, classify>>
  /\ \/ /\ getResp' = NoGet
        /\ \/ \E r \in Slots, f \in Uploads : Serial(r) /\ PostStart(r, f)
           \/ \E r \in Slots : UploadStep(r)
           \/ Tick
     \/ \E address \in ProbeAddresses \cup ReturnedAddresses :
           Quiet /\ getResp = NoGet /\ Get(address)

Spec == Init /\ [][Next]_vars

\* SpecSingle: a single upload, of a container of any size up to one entry
\* beyond the limit.
NextSingle ==
  /\ UNCHANGED <<client, classify>>
  /\ getResp' = NoGet
  /\ \/ \E f \in SingleUploads : PostStart(1, f)
     \/ UploadStep(1)

SpecSingle == Init /\ [][NextSingle]_vars

\* SpecConc: the two uploads run concurrently.
NextConc ==
  /\ UNCHANGED <<client, classify>>
  /\ getResp' = NoGet
  /\ \/ \E r \in Slots, f \in ConcUploads : PostStart(r, f)
     \/ \E r \in Slots : UploadStep(r)
     \/ \E r \in Slots : \E i \in 1..Len(req[r].writePromises) : WriteStreamENOENT(r, i)
     \/ Tick

SpecConc == Init /\ [][NextConc]_vars

\* SpecOrder: two uploads, one after the other, of archives that list the
\* same entries in any order.
NextOrder ==
  /\ UNCHANGED <<client, classify>>
  /\ getResp' = NoGet
  /\ \/ \E r \in Slots, f \in OrderUploads : Serial(r) /\ PostStart(r, f)
     \/ \E r \in Slots : UploadStep(r)
     \/ Tick

SpecOrder == Init /\ [][NextOrder]_vars

\* SpecFault: a single upload whose entry copies may fail.
NextFault ==
  /\ UNCHANGED <<client, classify>>
  /\ getResp' = NoGet
  /\ \/ \E f \in FaultUploads : PostStart(1, f)
     \/ UploadStep(1)
     \/ \E i \in 1..Len(req[1].writePromises) : OpenReadStreamErr(1, i)
     \/ \E i \in 1..Len(req[1].writePromises) : WriteStreamFault(1, i)
     \/ \E i \in 1..Len(req[1].writePromises) : ReadStreamFault(1, i)
     \/ OnZipfileError(1)

SpecFault == Init /\ [][NextFault]_vars

\* SpecFaultFair: SpecFault, where every callback that is due is eventually
\* run by the event loop.
SpecFaultFair ==
  SpecFault /\ WF_vars(UNCHANGED <<client, classify>> /\ getResp' = NoGet /\ UploadStep(1))

\* The imageUrls a classify request may carry in the current state.
RequestUrls == ClassifyUrls \cup UNION {Range(req[r].resp.imageUrls) : r \in Slots}

\* SpecClassify: one upload, and classify and image requests served while
\* no upload is in progress.
NextClassify ==
  \/ /\ getResp' = NoGet
     /\ \/ UNCHANGED <<client, classify>> /\ \E f \in ClassifyUploads : PostStart(1, f)
        \/ UNCHANGED <<client, classify>> /\ UploadStep(1)
        \/ \E keyConfigured \in BOOLEAN, body \in ClassifyBodies(RequestUrls) :
             Quiet /\ ClassifyStart(keyConfigured, body)
        \/ \E status \in ServiceErrors : ServiceFails(status)
        \/ \E content \in ServiceTexts : ServiceAnswers(content)
  \/ /\ UNCHANGED <<client, classify>>
     /\ \E address \in ReturnedAddresses : Quiet /\ getResp = NoGet /\ Get(address)

SpecClassify == Init /\ [][NextClassify]_vars

\* SpecClient: the page handles one file; the upload route serves its
\* request, the classify route is the environment.
NextClient ==
  /\ getResp' = NoGet
  /\ \/ \E f \in ClientUploads : HandleFile(1, f)
     \/ UNCHANGED <<client, classify>> /\ UploadStep(1)
     \/ UploadResponse(1)
     \/ ClassifyIssue(1)
     \/ ClassifyFetchSettled(1)
     \/ ClassifyErrorBody(1)
     \/ ClassifyBody(1)

SpecClient == Init /\ [][NextClient]_vars

\* Files a user hands to the page one after the other.
GalleryUploads ==
  {ZipFile("u.zip", c) : c \in {<<"a.jpg", "b.png">>, <<"c.gif">>, <<"r.txt">>}}
    \cup {ZipFile("u.txt", <<"a.jpg">>)}

\* Run k of handleFile is in its classify loop.
Classifying(k) == client.run[k].pc \in {"loop", "fetch", "body", "errorBody"}

\* SpecGallery: the user hands a file to the page, and while its images are
\* classified may hand it a second file and press RESET.
NextGallery ==
  /\ getResp' = NoGet
  /\ \/ \E f \in GalleryUploads : HandleFile(1, f)
     \/ \E f \in GalleryUploads : Classifying(1) /\ HandleFile(2, f)
     \/ HandleReset
     \/ UNCHANGED <<client, classify>> /\ (\E k \in Slots : UploadStep(k))
     \/ UNCHANGED <<client, classify>> /\ Tick
     \/ \E k \in Slots : UploadResponse(k)
     \/ \E k \in Slots : ClassifyIssue(k)
     \/ \E k \in Slots : ClassifyFetchSettled(k)
     \/ \E k \in Slots : ClassifyErrorBody(k)
     \/ \E k \in Slots : ClassifyBody(k)

SpecGallery == Init /\ [][NextGallery]_vars

(***************************************************************************)
(* Properties                                                              *)
(***************************************************************************)

AllowedExtensions == {"jpg", "jpeg", "png", "gif", "webp", "bmp"}

\* The last path segment of an entry name.
LeafOf(name) ==
  LET slashes == IndicesOf(name, "/")
  IN IF slashes = {} THEN name ELSE SubSeq(name, SetMax(slashes) + 1, Len(name))

\* The extension of an entry name: what follows the last dot of its leaf; a
\* leaf without a dot, or whose only dot is its first character, has none.
ExtensionOf(name) ==
  LET leaf == LeafOf(name)
      dots == IndicesOf(leaf, ".") \ {1}
  IN IF dots = {} THEN "" ELSE SubSeq(leaf, SetMax(dots) + 1, Len(leaf))

\* The keep decision of the entry filter, on the entry's name.
Qualifies(name) ==
  /\ ~endsWith(name, "/")
  /\ toLowerCase(ExtensionOf(name)) \in AllowedExtensions
  /\ ~startsWith(LeafOf(name), "._")

FirstOccurrence(zip, i) == \A j \in 1..(i - 1) : zip[j] # zip[i]

\* The entries of a container that qualify, each name counted once.
QualifyingEntries(zip) ==
  {i \in 1..Len(zip) : Qualifies(zip[i]) /\ FirstOccurrence(zip, i)}

Answered(r) == req[r].pc = "done"

\* The upload carries a file named *.zip whose bytes are a readable archive.
ValidUpload(r) ==
  req[r].file.present /\ endsWith(req[r].file.name, ".zip") /\ req[r].file.valid

Distinct(s) == \A i, j \in 1..Len(s) : i # j => s[i] # s[j]

SessionGone(r) ==
  /\ req[r].extractDir \notin dirs
  /\ \A p \in DOMAIN files : ~IsUnder(p, req[r].extractDir)

StagingGone(r) == req[r].tempZipPath \notin DOMAIN files

\* The canonical location an address stands for.
CanonicalLocation(address) ==
  pathResolve(cwd, pathJoin(<<UPLOAD_DIR>> \o pathSegmentsOf(address)))

\* C1: an image request returns file content only for a location below the
\* storage root, and every address whose canonical location is outside the
\* root is answered 403 without content.
C1_TraversalRejected ==
  (getResp.status # 0 /\ decodable(getResp.address)
     /\ Len(pathSegmentsOf(getResp.address)) > 0) =>
    LET loc == CanonicalLocation(getResp.address)
    IN /\ getResp.status = 200 => IsUnder(loc, UPLOAD_DIR)
       /\ (loc # UPLOAD_DIR /\ ~IsUnder(loc, UPLOAD_DIR)) =>
            (getResp.status = 403 /\ getResp.body = NoBytes)

\* C2: an upload of a readable archive with N qualifying entries (each name
\* counted once), 1 <= N <= 100, is answered 200 with exactly N addresses,
\* pairwise distinct.
C2_ExactlyNAddresses ==
  \A r \in Slots :
    LET n == Cardinality(QualifyingEntries(req[r].file.entries))
    IN (Answered(r) /\ ValidUpload(r) /\ n >= 1 /\ n <= MaxImages) =>
         /\ req[r].resp.status = 200
         /\ Len(req[r].resp.imageUrls) = n
         /\ Distinct(req[r].resp.imageUrls)

\* An upload with as many qualifying entries as the limit allows was answered.
C2_Witness ==
  \E r \in Slots :
    /\ Answered(r) /\ ValidUpload(r)
    /\ Cardinality(QualifyingEntries(req[r].file.entries)) = MaxImages
    /\ Len(req[r].resp.imageUrls) = MaxImages

\* C3: when an upload that created its staging file or session directory is
\* answered with an error, neither of them is left on disk.
C3_FailureLeavesNothing ==
  \A r \in Slots :
    (Answered(r) /\ req[r].resp.status # 200 /\ req[r].tempZipPath # Null) =>
      /\ StagingGone(r)
      /\ req[r].extractDir # Null => SessionGone(r)

\* C4: two uploads never have the same session directory.
C4_DistinctSessionDirs ==
  \A r1, r2 \in Slots :
    (r1 # r2 /\ req[r1].extractDir # Null /\ req[r2].extractDir # Null) =>
      req[r1].extractDir # req[r2].extractDir

\* C5: an upload of a readable archive without qualifying entry is answered
\* 400 'No images found in ZIP file', and neither its session directory nor
\* its staging file exists then.
C5_EmptyContainerCleansUp ==
  \A r \in Slots :
    (Answered(r) /\ ValidUpload(r) /\ QualifyingEntries(req[r].file.entries) = {}) =>
      /\ req[r].resp.status = 400
      /\ req[r].resp.error = "No images found in ZIP file"
      /\ req[r].resp.imageUrls = <<>>
      /\ SessionGone(r)
      /\ StagingGone(r)

\* An archive that has entries, none of them qualifying, was answered.
C5_Witness ==
  \E r \in Slots :
    /\ Answered(r) /\ ValidUpload(r)
    /\ Len(req[r].file.entries) > 0
    /\ QualifyingEntries(req[r].file.entries) = {}
    /\ req[r].extractDir # Null

\* C6: an upload of a readable archive with more than 100 qualifying entries
\* is answered 400 'ZIP file contains more than 100 images' without any
\* address, and neither its session directory nor its staging file exists then.
C6_TooManyImagesCleansUp ==
  \A r \in Slots :
    (Answered(r) /\ ValidUpload(r)
       /\ Cardinality(QualifyingEntries(req[r].file.entries)) > MaxImages) =>
      /\ req[r].resp.status = 400
      /\ req[r].resp.error = "ZIP file contains more than 100 images"
      /\ req[r].resp.imageUrls = <<>>
      /\ SessionGone(r)
      /\ StagingGone(r)

\* An archive with 101 qualifying entries was answered.
C6_Witness ==
  \E r \in Slots :
    /\ Answered(r) /\ ValidUpload(r)
    /\ Cardinality(QualifyingEntries(req[r].file.entries)) = MaxImages + 1
    /\ Len(req[r].writePromises) = MaxImages + 1

\* The part of a returned address after the routing prefix.
AddressOf(url) == SubSeq(url, Len(RoutePrefix) + 1, Len(url))

\* The bytes the extraction of upload r wrote to a location.
WrittenBytes(r, location) ==
  LET i == CHOOSE i \in 1..Len(req[r].writePromises) :
             req[r].writePromises[i].value = location
  IN EntryBytes(req[r].zipUp, req[r].writePromises[i].entry)

\* C7: requesting an address a successful upload returned is answered 200
\* with the bytes the extraction wrote for that address's entry.
C7_RoundTrip ==
  \A r \in Slots :
    (Answered(r) /\ req[r].resp.status = 200) =>
      \A k \in 1..Len(req[r].resp.imageUrls) :
        getResp.address = AddressOf(req[r].resp.imageUrls[k]) =>
          /\ getResp.status = 200
          /\ getResp.body = WrittenBytes(r, req[r].existingFiles[k])

\* C8: an extraction that has started eventually resolves or rejects,
\* whatever happens to the copy of each entry.
C8_ExtractionCompletes ==
  \A r \in Slots : (req[r].pc = "extracting") ~> (req[r].pc # "extracting")

\* extractZip of upload r has just resolved.
Resolved(r) ==
  \/ req[r].pc = "removeDir"
  \/ req[r].pc = "removeTemp" /\ req[r].pendingError = Null

\* The location the copy of entry i resolved with, Null if there is none.
LocationOf(r, i) ==
  LET ws == {k \in 1..Len(req[r].writePromises) : req[r].writePromises[k].entry = i}
  IN IF ws = {} THEN Null ELSE req[r].writePromises[CHOOSE k \in ws : TRUE].value

\* name_k.ext for the leaf name.ext; the leaf itself for k = 0.
SuffixedLeaf(leaf, k) ==
  IF k = 0 THEN leaf
  ELSE LET dots == IndicesOf(leaf, ".")
           cut == IF dots = {} THEN Len(leaf) + 1 ELSE SetMax(dots)
       IN SubSeq(leaf, 1, cut - 1) \o "_" \o ToStr(k) \o SubSeq(leaf, cut, Len(leaf))

\* Pairs of qualifying entries with different names and the same leaf name.
SameLeafPairs(zip) ==
  {p \in QualifyingEntries(zip) \X QualifyingEntries(zip) :
     p[1] < p[2] /\ basename(zip[p[1]]) = basename(zip[p[2]])}

\* Entry i is the first qualifying entry of the container with its leaf name.
FirstWithLeaf(zip, i) ==
  \A j \in QualifyingEntries(zip) : j < i => basename(zip[j]) # basename(zip[i])

\* Both entries were extracted, to different locations, and the earlier one's
\* file still holds its own bytes.
BothExtracted(r, i, j) ==
  /\ LocationOf(r, i) \notin {Null, Pending}
  /\ LocationOf(r, j) \notin {Null, Pending}
  /\ LocationOf(r, i) # LocationOf(r, j)
  /\ LocationOf(r, i) \in DOMAIN files
  /\ LocationOf(r, j) \in DOMAIN files
  /\ files[LocationOf(r, i)] = EntryBytes(req[r].zipUp, i)
  /\ files[LocationOf(r, j)] = EntryBytes(req[r].zipUp, j)

\* The location in the session directory of upload r with the given leaf.
LeafLocation(r, leaf) == req[r].extractDir \o "/" \o leaf

\* The location of entry i is the first free one among name.ext, name_1.ext,
\* name_2.ext, ...: it is candidate number k >= least, and every candidate
\* before it is taken.
FirstFreeFrom(r, i, least) ==
  LET leaf == basename(req[r].zipfile[i])
      location == LocationOf(r, i)
  IN \E k \in least..Cardinality(DOMAIN files) :
       /\ location = LeafLocation(r, SuffixedLeaf(leaf, k))
       /\ \A m \in 0..(k - 1) : LeafLocation(r, SuffixedLeaf(leaf, m)) \in DOMAIN files

\* C9 as stated: of two entries with different names and the same leaf name,
\* both are extracted to different locations without overwriting, the first
\* entry with that leaf keeps the leaf name.ext and a later one gets
\* name_k.ext for the smallest k >= 1 whose location is free.
C9_FirstKeepsLeaf ==
  \A r \in Slots :
    Resolved(r) =>
      \A p \in SameLeafPairs(req[r].zipfile) :
        /\ BothExtracted(r, p[1], p[2])
        /\ FirstWithLeaf(req[r].zipfile, p[1]) =>
             LocationOf(r, p[1]) = LeafLocation(r, basename(req[r].zipfile[p[1]]))
        /\ FirstFreeFrom(r, p[2], 1)

\* C9 amended: of two entries with different names and the same leaf name,
\* both are extracted to different locations without overwriting, and each
\* gets the first free location among name.ext, name_1.ext, name_2.ext, ...;
\* the later one's is never name.ext.
C9_DistinctFirstFreeLocations ==
  \A r \in Slots :
    Resolved(r) =>
      /\ \A p \in SameLeafPairs(req[r].zipfile) :
           /\ BothExtracted(r, p[1], p[2])
           /\ LocationOf(r, p[2]) # LeafLocation(r, basename(req[r].zipfile[p[2]]))
      /\ \A i \in {p[1] : p \in SameLeafPairs(req[r].zipfile)}
                \cup {p[2] : p \in SameLeafPairs(req[r].zipfile)} :
           FirstFreeFrom(r, i, 0)

\* An extraction resolved in which the first entry with a leaf name that
\* another entry has too did not keep the leaf name.
C9_Witness ==
  \E r \in Slots :
    /\ Resolved(r)
    /\ \E p \in SameLeafPairs(req[r].zipfile) :
         /\ FirstWithLeaf(req[r].zipfile, p[1])
         /\ LocationOf(r, p[1]) \notin {Null, Pending}
         /\ LocationOf(r, p[1]) # LeafLocation(r, basename(req[r].zipfile[p[1]]))

\* C10: of the entries with one name only the first is processed: a later
\* one starts no copy, writes no file and adds no location, and the upload
\* is not answered with an error because of it.
C10_OnlyFirstOccurrence ==
  \A r \in Slots :
    /\ \A k \in 1..Len(req[r].writePromises) :
         FirstOccurrence(req[r].zipfile, req[r].writePromises[k].entry)
    /\ \A p \in DOMAIN files :
         (files[p].up = r /\ files[p].idx > 0) =>
           FirstOccurrence(req[r].file.entries, files[p].idx)
    /\ (Answered(r) /\ ValidUpload(r)) =>
         /\ req[r].resp.status # 500
         /\ Len(req[r].extractedFiles) <= Cardinality(Range(req[r].file.entries))

\* An archive that lists a qualifying name twice was answered with addresses.
C10_Witness ==
  \E r \in Slots :
    /\ Answered(r)
    /\ req[r].resp.status = 200
    /\ \E i, j \in 1..Len(req[r].file.entries) :
         /\ i < j
         /\ req[r].file.entries[i] = req[r].file.entries[j]
         /\ Qualifies(req[r].file.entries[i])

\* The files the extraction of upload r has written so far.
SessionFiles(r) == {p \in DOMAIN files : IsUnder(p, req[r].extractDir)}

\* C11: an entry is written to disk only if its name does not end with '/',
\* its extension is an image extension whatever its case, and its leaf does
\* not start with '._'; and once the extraction has resolved, every entry
\* that meets the three conditions (each name once) has its file.
C11_EntryFilter ==
  \A r \in Slots :
    /\ \A k \in 1..Len(req[r].writePromises) :
         Qualifies(req[r].zipfile[req[r].writePromises[k].entry])
    /\ req[r].extractDir # Null =>
         \A p \in SessionFiles(r) :
           files[p].up = req[r].zipUp => Qualifies(req[r].zipfile[files[p].idx])
    /\ Resolved(r) =>
         \A i \in QualifyingEntries(req[r].zipfile) :
           /\ LocationOf(r, i) \in DOMAIN files
           /\ files[LocationOf(r, i)] = EntryBytes(req[r].zipUp, i)

\* An extraction resolved for an archive that has resource forks with image
\* extensions, an image name in mixed case, and names without a usable
\* extension.
C11_Witness ==
  \E r \in Slots :
    /\ Resolved(r)
    /\ \E i, j, k \in 1..Len(req[r].zipfile) :
         /\ startsWith(LeafOf(req[r].zipfile[i]), "._")
         /\ toLowerCase(ExtensionOf(req[r].zipfile[i])) \in AllowedExtensions
         /\ Qualifies(req[r].zipfile[j])
         /\ ExtensionOf(req[r].zipfile[j]) \notin AllowedExtensions
         /\ LocationOf(r, j) \in DOMAIN files
         /\ ExtensionOf(req[r].zipfile[k]) = ""

\* The archive of the scenario.
ScenarioArchive == <<"a.jpg", "sub/a.jpg", "b.png", "._b.png", "readme.txt", "empty_dir/">>

\* C12: the upload of the archive a.jpg, sub/a.jpg, b.png, ._b.png,
\* readme.txt, empty_dir/ is answered with exactly 3 addresses, whose leaf
\* names are a.jpg, a_1.jpg and b.png, and the session directory holds the
\* files of the first three entries and nothing else.
C12_Scenario ==
  \A r \in Slots :
    (Answered(r) /\ ValidUpload(r) /\ req[r].file.entries = ScenarioArchive) =>
      /\ req[r].resp.status = 200
      /\ Len(req[r].resp.imageUrls) = 3
      /\ {LeafOf(u) : u \in Range(req[r].resp.imageUrls)} = {"a.jpg", "a_1.jpg", "b.png"}
      /\ \A u \in Range(req[r].resp.imageUrls) :
           u = RoutePrefix \o LeafOf(req[r].extractDir) \o "/" \o LeafOf(u)
      /\ SessionFiles(r) = {LeafLocation(r, "a.jpg"), LeafLocation(r, "a_1.jpg"),
                            LeafLocation(r, "b.png")}
      /\ files[LeafLocation(r, "a.jpg")] = EntryBytes(req[r].zipUp, 1)
      /\ files[LeafLocation(r, "a_1.jpg")] = EntryBytes(req[r].zipUp, 2)
      /\ files[LeafLocation(r, "b.png")] = EntryBytes(req[r].zipUp, 3)

\* The upload of the scenario's archive was answered.
C12_Witness ==
  \E r \in Slots :
    /\ Answered(r) /\ ValidUpload(r)
    /\ req[r].file.entries = ScenarioArchive
    /\ req[r].resp.imageUrls # <<>>

\* The location on disk an address of upload r stands for.
LocationOfUrl(u) == UPLOAD_DIR \o "/" \o AddressOf(u)

\* The session invariant of the response of upload r.
SessionInvariant(r) ==
  LET urls == req[r].resp.imageUrls
  IN /\ Len(urls) >= 1
     /\ Len(urls) <= MaxImages
     /\ Distinct(urls)
     /\ \A u \in Range(urls) :
          /\ LocationOfUrl(u) \in DOMAIN files
          /\ IsUnder(LocationOfUrl(u), req[r].extractDir)

\* Upload r is answered 200 in this step.
RespondsOk(r) ==
  req[r].pc # "done" /\ req'[r].pc = "done" /\ req'[r].resp.status = 200

\* C13: at the time an upload is answered 200, its address list has between
\* 1 and 100 entries, pairwise distinct, and every address stands for a file
\* that exists inside the session directory of that upload.
C13_SessionInvariantAtResponse ==
  [][\A r \in Slots : RespondsOk(r) => SessionInvariant(r)']_vars
\* The addresses of a response relative to the session directory.
RelativeAddresses(r) ==
  LET urls == req[r].resp.imageUrls
      prefix == RoutePrefix \o SubSeq(req[r].extractDir, Len(UPLOAD_DIR) + 2, Len(req[r].extractDir)) \o "/"
  IN [k \in 1..Len(urls) |-> SubSeq(urls[k], Len(prefix) + 1, Len(urls[k]))]

\* Two answered uploads, each with a session directory of its own, whose
\* archives hold the same entries, each once.
SameEntries(r, s) ==
  /\ req[r].pc = "done" /\ req[r].resp.status = 200
  /\ req[s].pc = "done" /\ req[s].resp.status = 200
  /\ req[r].extractDir # req[s].extractDir
  /\ Distinct(req[r].file.entries) /\ Distinct(req[s].file.entries)
  /\ Range(req[r].file.entries) = Range(req[s].file.entries)

\* C14: two archives that hold the same entries in different orders are
\* answered with the same sequence of addresses relative to the session
\* directory.
C14_OrderIndependent ==
  \A r, s \in Slots :
    SameEntries(r, s) => RelativeAddresses(r) = RelativeAddresses(s)

\* The copy of entry i of upload r failed: its promise resolved with null.
CopyFailed(r, i) == LocationOf(r, i) = Null /\ \E k \in 1..Len(req[r].writePromises) : req[r].writePromises[k].entry = i

\* The number of copies started for entry i.
CopiesOf(r, i) == Cardinality({k \in 1..Len(req[r].writePromises) : req[r].writePromises[k].entry = i})

\* The copy of entry i wrote the whole entry to the location it chose.
CopySucceeded(r, i) ==
  \E k \in 1..Len(req[r].writePromises) :
    LET w == req[r].writePromises[k]
    IN /\ w.entry = i
       /\ w.stage = "closed"
       /\ w.finalPath \in DOMAIN files
       /\ files[w.finalPath] = EntryBytes(req[r].zipUp, i)

\* extractZip of upload r rejected.
Rejected(r) == req[r].pc = "done" /\ req[r].zipfile # <<>> /\ req[r].resp.status = 500

\* C15: when the copy of an entry fails, extractZip does not reject; once it
\* resolves, no file of a failed entry is in the list, every first-occurrence
\* qualifying entry was given exactly one copy, and the location of every
\* copy that succeeded is in the list.
C15_WriteFailureIsolated ==
  \A r \in Slots :
    (\E i \in DOMAIN req[r].zipfile : CopyFailed(r, i)) =>
      /\ ~Rejected(r)
      /\ Resolved(r) =>
            /\ \A i \in DOMAIN req[r].zipfile :
                  CopyFailed(r, i) =>
                    \A p \in Range(req[r].extractedFiles) :
                      p \in DOMAIN files => files[p].idx # i
            /\ \A i \in QualifyingEntries(req[r].zipfile) :
                  /\ CopiesOf(r, i) = 1
                  /\ CopySucceeded(r, i) => LocationOf(r, i) \in Range(req[r].extractedFiles)

\* A copy of upload r is still outstanding: its stream is open, or its
\* promise is not settled.
Outstanding(r) ==
  \E k \in 1..Len(req[r].writePromises) :
    \/ req[r].writePromises[k].value = Pending
    \/ req[r].writePromises[k].stage \notin {"closed", "errored"}

\* C16: when extractZip resolves, no copy it started is outstanding, and the
\* list it resolves with holds the location of every copy that succeeded.
C16_JoinBeforeResolve ==
  \A r \in Slots :
    Resolved(r) =>
      /\ ~Outstanding(r)
      /\ \A i \in DOMAIN req[r].zipfile :
            CopySucceeded(r, i) => LocationOf(r, i) \in Range(req[r].extractedFiles)

\* extractZip resolved after one copy failed and a later one succeeded.
C16_Witness ==
  /\ Resolved(1)
  /\ \E i, j \in DOMAIN req[1].zipfile :
        /\ i < j
        /\ CopyFailed(1, i)
        /\ CopySucceeded(1, j)
        /\ LocationOf(1, j) \in Range(req[1].extractedFiles)

\* The uploaded file's name ends in .zip.
HasZipSuffix(name) ==
  Len(name) >= 4 /\ SubSeq(name, Len(name) - 3, Len(name)) = ".zip"

\* The request of slot r carried a file whose name lacks the .zip suffix.
WrongSuffix(r) ==
  req[r].pc # "idle" /\ req[r].file.present /\ ~HasZipSuffix(req[r].file.name)

\* C17: an upload whose file name does not end in .zip is answered 400
\* 'File must be a ZIP file', and neither a staging file nor a session
\* directory is created for it.
C17_WrongSuffixRejected ==
  WrongSuffix(1) =>
    /\ req[1].pc = "done"
    /\ req[1].resp.status = 400
    /\ req[1].resp.error = "File must be a ZIP file"
    /\ req[1].tempZipPath = Null /\ req[1].extractDir = Null
    /\ \A p \in DOMAIN files : ~IsUnder(p, TEMP_DIR)
    /\ \A d \in dirs : ~IsUnder(d, UPLOAD_DIR)

\* A readable archive with an image, uploaded as u.zip.txt, was rejected.
C17_Witness ==
  /\ WrongSuffix(1)
  /\ req[1].file.name = "u.zip.txt" /\ req[1].file.valid
  /\ req[1].resp.status = 400

\* Characters a URL path segment may hold as they are.
Unreserved == "ABCDEFGHIJKLMNOPQRSTUVWXYZabcdefghijklmnopqrstuvwxyz0123456789-_.~"

\* %XX for the character c.
Escape(c) ==
  "%" \o CharAt("0123456789ABCDEF", (CharCode(c) \div 16) + 1)
      \o CharAt("0123456789ABCDEF", (CharCode(c) % 16) + 1)

\* The path with every character percent-encoded that is neither unreserved
\* nor the separator.
RECURSIVE PercentEncode(_)
PercentEncode(path0) ==
  At(LAMBDA path :
    IF path = "" THEN ""
    ELSE LET c == CharAt(path, 1)
         IN (IF c = "/" \/ IndicesOf(Unreserved, c) # {} THEN c ELSE Escape(c))
              \o PercentEncode(SubSeq(path, 2, Len(path))),
    path0)

\* The location relative to the storage root.
RelativeLocation(location) == SubSeq(location, Len(UPLOAD_DIR) + 2, Len(location))

\* C18: every address of a successful response is the routing prefix
\* followed by the percent-encoded location, relative to the storage root,
\* of one of the files it lists.
C18_AddressEncoding ==
  \A r \in Slots :
    (Answered(r) /\ req[r].resp.status = 200) =>
      Range(req[r].resp.imageUrls) =
        {RoutePrefix \o PercentEncode(RelativeLocation(p)) : p \in Range(req[r].existingFiles)}

\* An image request was served for an address the route could take apart.
Served ==
  /\ getResp.status # 0
  /\ decodable(getResp.address)
  /\ Len(pathSegmentsOf(getResp.address)) > 0

\* C19: an address whose canonical location is below the storage root and
\* holds no file is answered 404, and an address whose canonical location
\* is outside the root is answered 403 also when no file is there.
C19_NotFoundAfterContainment ==
  Served =>
    LET loc == CanonicalLocation(getResp.address)
    IN /\ (IsUnder(loc, UPLOAD_DIR) /\ loc \notin DOMAIN files) => getResp.status = 404
       /\ (loc # UPLOAD_DIR /\ ~IsUnder(loc, UPLOAD_DIR) /\ loc \notin DOMAIN files) =>
            getResp.status = 403

\* Image k of the page (counted from 0) was classified or failed.
Settled(k) == client.images[k + 1].status = "completed"

\* C20: handleFile classifies one image at a time: at most one classify
\* request is outstanding, the requests are issued in the order of the
\* images and each only after the one before it was answered or failed, and
\* handleFile ends only after a request was issued for every image, also
\* when requests failed.
C20_OneAtATime ==
  LET run == client.run[1]
  IN /\ Cardinality(run.outstanding) <= 1
     /\ \A k \in 1..Len(run.issued) :
           /\ run.issued[k] = k - 1
           /\ k < Len(run.issued) =>
                 Settled(run.issued[k]) /\ run.issued[k] \notin run.outstanding
     /\ (run.pc = "finished" /\ run.shuffledUrls # <<>>) =>
           /\ Len(run.issued) = Len(run.shuffledUrls)
           /\ \A k \in 1..Len(client.images) : Settled(k - 1)

\* handleFile ended after the first of several requests failed and a later
\* one was answered.
C20_Witness ==
  /\ client.run[1].pc = "finished"
  /\ Len(client.run[1].shuffledUrls) >= 2
  /\ client.images[1].foreground = "Error"
  /\ client.images[2].classification = "good"
  /\ Len(client.run[1].issued) = Len(client.run[1].shuffledUrls)

Classes == {"good", "bad", "unknown"}

\* The classify request was answered from a text of the vision service.
AnsweredFromText == classify.pc = "done" /\ classify.content # Null

\* The object in the text, SyntaxError when there is none or it cannot be
\* parsed.
ObjectIn(content) ==
  IF jsonMatch(content) = Null THEN SyntaxError ELSE JSONparse(jsonMatch(content))

\* The classification the object gives, in lower case; Null when the field
\* is absent or no string.
GivenClass(parsed) ==
  IF member(parsed, "classification").type = "string"
  THEN toLowerCase(member(parsed, "classification").value)
  ELSE Null

\* The text is well-formed structured output: an object that parses, with
\* a classification that is one of the three values whatever its case.
WellFormed(content) ==
  /\ ObjectIn(content) # SyntaxError
  /\ GivenClass(ObjectIn(content)) \in Classes

\* The background the object describes, in lower case; Null when it is no
\* text.
GivenBackground(parsed) ==
  IF member(parsed, "background").type = "string" /\ member(parsed, "background").value # ""
  THEN toLowerCase(member(parsed, "background").value)
  ELSE IF truthy(member(parsed, "background")) THEN Null
  ELSE "unable to describe"

MentionsWhitePlain(bg) ==
  includes(bg, "white") /\ \E w \in {"plain", "backdrop", "background"} : includes(bg, w)

MentionsSetting(bg) == \E w \in {"room", "studio", "colored", "color"} : includes(bg, w)

\* C21 as stated: every text of the vision service is answered with one of
\* the three classifications, and a text that is not well-formed structured
\* output is answered with unknown.
C21_MalformedIsUnknown ==
  AnsweredFromText =>
    /\ classify.resp.status = 200
    /\ classify.resp.classification \in Classes
    /\ ~WellFormed(classify.content) => classify.resp.classification = "unknown"

\* C21: every text of the vision service is answered with one of the three
\* classifications; a text without an object that parses is answered with
\* unknown; an object with one of the three values is answered with that
\* value; an object with an absent or other classification is answered
\* with the classification inferred from its background: bad for white with
\* plain, backdrop or background, else good for room, studio, colored or
\* color, else unknown, and unknown when a field is no text.
C21_MalformedIsInferred ==
  AnsweredFromText =>
    LET parsed == ObjectIn(classify.content)
        class == classify.resp.classification
    IN /\ classify.resp.status = 200
       /\ class \in Classes
       /\ parsed = SyntaxError => class = "unknown"
       /\ parsed # SyntaxError =>
            LET given == member(parsed, "classification")
                bg == GivenBackground(parsed)
            IN IF GivenClass(parsed) \in Classes THEN class = GivenClass(parsed)
               ELSE IF given.type \notin {"string", "undefined", "null"} \/ bg = Null
               THEN class = "unknown"
               ELSE IF MentionsWhitePlain(bg) THEN class = "bad"
               ELSE IF MentionsSetting(bg) THEN class = "good"
               ELSE class = "unknown"

\* An object with the classification maybe and a plain white background was
\* answered with bad.
C21_Witness ==
  /\ AnsweredFromText
  /\ ObjectIn(classify.content) # SyntaxError
  /\ GivenClass(ObjectIn(classify.content)) = "maybe"
  /\ classify.resp.classification = "bad"

\* The copies of the request q that have begun and have neither finished
\* nor failed.
InFlight(q) ==
  {i \in 1..Len(q.writePromises) :
     q.writePromises[i].stage \in {"opening", "piping", "written", "stalled"}}

\* C22: while an archive is extracted, the readEntry() calls that have not
\* been answered and the copies in flight are together at most one: the next
\* entry is requested once per handled entry, and only when no copy is in
\* flight.
C22_SequentialEntryLoop ==
  \A r \in Slots :
    req[r].pc = "extracting" =>
      req[r].reading + Cardinality(InFlight(req[r])) <= 1

\* successfulFiles of extractZip: the locations the write promises were
\* fulfilled with, before the extractor removes duplicates.
SuccessfulFiles(q) ==
  LET fulfilled == SelectSeq(q.writePromises, LAMBDA w : w.value \notin {Null, Pending})
  IN [k \in 1..Len(fulfilled) |-> fulfilled[k].value]

\* imageUrls of POST: the addresses of the files that exist, before the
\* coordinator removes duplicates.
AddressesOf(q) == [k \in 1..Len(q.existingFiles) |-> imageUrl(q.existingFiles[k])]

\* extractZip has resolved for the request q.
Extracted(q) ==
  /\ q.ended
  /\ q.pc \in {"removeDir", "removeTemp", "done"}
  /\ q.resp.status # 500

\* C23: when an extraction has resolved, the successful locations, the
\* sorted locations and the addresses each hold no element twice, so none
\* of the passes that remove duplicates removes anything.
C23_DedupIsNoOp ==
  \A r \in Slots :
    Extracted(req[r]) =>
      /\ Dedup(SuccessfulFiles(req[r])) = SuccessfulFiles(req[r])
      /\ Dedup(req[r].extractedFiles) = req[r].extractedFiles
      /\ Dedup(AddressesOf(req[r])) = AddressesOf(req[r])
      /\ Dedup(req[r].uniqueUrls) = req[r].uniqueUrls

\* s is in strictly ascending order of UTF-16 code units.
Ascending(s) == \A i, j \in 1..Len(s) : i < j => StrLess(s[i], s[j])

\* C24: the addresses of a response with status 200 are those of files in
\* ascending order of their locations, one address per location.
C24_AddressesSorted ==
  \A r \in Slots :
    (req[r].pc = "done" /\ req[r].resp.status = 200) =>
      /\ Ascending(req[r].existingFiles)
      /\ req[r].resp.imageUrls = AddressesOf(req[r])

\* An archive whose entries are not listed in ascending order of the
\* locations they are copied to has been answered.
C24_Witness ==
  /\ req[1].pc = "done"
  /\ req[1].resp.status = 200
  /\ req[1].zipfile = <<"B.PNG", "%41.png", "A.png">>
  /\ Len(req[1].resp.imageUrls) = 3

\* What the ingest of upload r leaves on disk.
IngestLeaves(r) ==
  /\ req[r].tempZipPath \notin DOMAIN files
  /\ req[r].extractDir \in dirs
  /\ \A k \in 1..Len(req[r].resp.imageUrls) :
        /\ req[r].resp.imageUrls[k] = imageUrl(req[r].existingFiles[k])
        /\ req[r].existingFiles[k] \in DOMAIN files

\* C25: when an upload is answered 200, its staging file does not exist,
\* and its session directory and the file of every address it returns
\* exist.
C25_StagingGoneSessionKept ==
  [][\A r \in Slots : RespondsOk(r) => IngestLeaves(r)']_vars

\* The MIME type of an extension, written without its dot.
MimeOfExtension(ext) ==
  CASE toLowerCase(ext) \in {"jpg", "jpeg"} -> "image/jpeg"
    [] toLowerCase(ext) = "png" -> "image/png"
    [] toLowerCase(ext) = "gif" -> "image/gif"
    [] toLowerCase(ext) = "webp" -> "image/webp"
    [] toLowerCase(ext) = "bmp" -> "image/bmp"
    [] OTHER -> "image/jpeg"

\* C26: the content type of an image that is served, and the MIME type of
\* an image that is handed to the vision service, is the one the table
\* gives for the extension of the file in lower case.
C26_MimeByExtension ==
  /\ getResp.status = 200 =>
        getResp.contentType = MimeOfExtension(ExtensionOf(getResp.address))
  /\ classify.base64Image.filePath # Null =>
        classify.base64Image.mimeType =
          MimeOfExtension(ExtensionOf(classify.base64Image.filePath))

\* An image with an upper-case extension is served as image/png while a
\* file without an image extension is handed to the vision service.
C26_Witness ==
  /\ getResp.status = 200
  /\ getResp.address = "extract_1/c.PNG"
  /\ getResp.contentType = "image/png"
  /\ classify.base64Image.filePath = "/etc/passwd"
  /\ classify.base64Image.mimeType = "image/jpeg"

\* C27: a file that getImageBase64 has read, and whose bytes go to the
\* vision service, lies under the storage root.
C27_ReadsUnderStorageRoot ==
  classify.base64Image.filePath # Null =>
    IsUnder(classify.base64Image.filePath, UPLOAD_DIR)

\* C28: from the time an upload has written its staging file until it
\* removes it, the file exists and holds the bytes of that upload, and the
\* archive the upload extracts is the one uploaded to it.
C28_StagingIsolated ==
  \A r \in Slots :
    /\ req[r].pc \in {"staged", "opening", "extracting", "removeDir", "removeTemp"} =>
          /\ req[r].tempZipPath \in DOMAIN files
          /\ files[req[r].tempZipPath].up = req[r].up
    /\ req[r].zipUp \in {0, req[r].up}

\* C30: an upload request without a 'file' field is answered 400 'No file
\* provided', and has written no staging file and made no session
\* directory.
C30_NoFileRejected ==
  \A r \in Slots :
    (req[r].pc = "done" /\ ~req[r].file.present) =>
      /\ req[r].resp.status = 400
      /\ req[r].resp.error = "No file provided"
      /\ req[r].tempZipPath = Null
      /\ req[r].extractDir = Null

\* C29: a card of the gallery that shows the result of a classify request
\* that was answered is the card of the image whose url that request
\* carried.
C29_ResultOnItsCard ==
  \A n \in 1..Len(client.images) :
    (client.images[n].asked # Null /\ client.images[n].foreground # "Error") =>
      client.images[n].asked = client.images[n].url

====
